---- MODULE Spec2Model ----
(***************************************************************************)
(* A model of package asip (src/asip.go): the parser of the Alexa Website  *)
(* Info page.                                                              *)
(*                                                                         *)
(* Representation.                                                         *)
(*  - A Go string is a sequence of characters ("" is <<>>), so that         *)
(*    trimming, comma removal, digit scanning and quoting are computed.    *)
(*    A character of the ASCII range ' ' to '~', and each of '\t', '\n',   *)
(*    '\f', '\r', is the one-character string that holds it.  Every other  *)
(*    code point is its name "U+XXXX" in upper-case hexadecimal, of four   *)
(*    digits or as many as it needs ("U+00A0" is the no-break space,       *)
(*    "U+0416" a Cyrillic letter, "U+E0001" a language tag).  A byte that  *)
(*    is not part of a valid UTF-8 encoding is "0xNN".                     *)
(*  - A uint64 / uint value is its canonical decimal numeral (no leading   *)
(*    zeros, zero is <<"0">>): the whole 64-bit range is exact, and the    *)
(*    overflow test of strconv.ParseUint is the real one.                  *)
(*  - An error value is <<>> (nil) or <<msg>>, msg the error's message, a   *)
(*    Go string.                                                           *)
(*  - A *Site is <<>> (nil) or <<site>>.                                   *)
(*  - A goquery selection is the sequence of its nodes in document order.  *)
(*    A node that is only read for its text is that text; a node that is   *)
(*    searched is a function from a selector to the selection of the       *)
(*    node's descendants matching it; an anchor read for an attribute is   *)
(*    a function from attribute names to values.                           *)
(***************************************************************************)
EXTENDS Naturals, Sequences, FiniteSets, TLC

VARIABLES
    pc,         \* position of the siteInfo/parse call
    resp,       \* what the get function returns: <<response, err>>
    d,          \* the parsed document (parse's d), <<>> before it is built
    s,          \* parse's accumulator (var s Site)
    attempted,  \* the field extractors parse has called, in call order
    parseRet,   \* <<>> until parse returns, then <<pointer, err>>
    ret,        \* <<>> until siteInfo returns, then <<pointer, err>>
    arg,        \* input of a directly applied extractor
    called,     \* the extractor applied to arg ("none" before)
    result      \* <<value, err>> of the applied extractor

vars == <<pc, resp, d, s, attempted, parseRet, ret, arg, called, result>>

----------------------------------------------------------------------------
(* Bounds of the model *)

\* longest text enumerated for the numeric extraction
MaxLen == 4
\* most nodes a scalar selector matches in the scalar-extraction inputs
MaxNodes == 2
\* most rows of a table body in the tabular-extraction inputs
MaxRows == 2
\* most sections of a document that differ from the well-formed document
MaxDeviations == 2

----------------------------------------------------------------------------
(* Selector table, src/asip.go:15-31 *)

seGlobalRank   == "span.globleRank span div strong"
seLocalRank    == "span.countryRank span div strong"
seCountry      == "span.countryRank span h4 a"
seVisitors     == "table#demographics_div_country_table tbody"
seKeywords     == "table#keywords_top_keywords_table tbody"
seUpstreams    == "table#keywords_upstream_site_table tbody"
seLinks        == "table#linksin_table tbody"
seLinkingTotal == "section#linksin-panel-content div span div span.font-4.box1-r"
seRelated      == "table#audience_overlap_table tbody"
seCategories   == "table#category_link_table tbody"
seSubdomains   == "table#subdomain_table tbody"
seTitle        == "div.row-fluid.siteinfo-site-summary span div p"
seDescription  == "section#contact-panel-content div.row-fluid span.span8 p.color-s3"
seNoData       == "section#no-enough-data"

ErrNoEnoughData ==
    <<"n", "o", " ", "e", "n", "o", "u", "g", "h", " ", "d", "a", "t", "a">>

StatusOK == 200

----------------------------------------------------------------------------
(* Strings *)

\* unicode.IsSpace: '\t', '\n', '\v', '\f', '\r', ' ', U+0085 (NEL),
\* U+00A0 (NBSP), and the other code points of category Z and property
\* Pattern_White_Space
IsSpace(c) ==
    c \in {"\t", "\n", "U+000B", "\f", "\r", " ", "U+0085", "U+00A0",
           "U+1680", "U+2000", "U+2001", "U+2002", "U+2003", "U+2004",
           "U+2005", "U+2006", "U+2007", "U+2008", "U+2009", "U+200A",
           "U+2028", "U+2029", "U+202F", "U+205F", "U+3000"}

RECURSIVE TrimLeft(_)
TrimLeft(cs) ==
    IF cs # <<>> /\ IsSpace(cs[1]) THEN TrimLeft(Tail(cs)) ELSE cs

RECURSIVE TrimRight(_)
TrimRight(cs) ==
    IF cs # <<>> /\ IsSpace(cs[Len(cs)])
    THEN TrimRight(SubSeq(cs, 1, Len(cs) - 1))
    ELSE cs

\* strings.TrimSpace
TrimSpace(cs) == TrimRight(TrimLeft(cs))

\* strings.ReplaceAll(s, old, "") for a one-character old
ReplaceAll(cs, old) == SelectSeq(cs, LAMBDA c : c # old)

----------------------------------------------------------------------------
(* strconv.ParseUint(s, 10, 64) *)

Digits == <<"0", "1", "2", "3", "4", "5", "6", "7", "8", "9">>

IsDigit(c) == \E i \in 1..10 : Digits[i] = c

Zero == <<"0">>

\* math.MaxUint64 = 18446744073709551615
MaxUint64 ==
    <<"1","8","4","4","6","7","4","4","0","7","3","7","0","9","5","5","1","6","1","5">>

DigitVal(c) == (CHOOSE i \in 1..10 : Digits[i] = c) - 1

RECURSIVE Canon(_)
\* the canonical numeral of a digit string: leading zeros dropped
Canon(ds) ==
    IF Len(ds) > 1 /\ ds[1] = "0" THEN Canon(Tail(ds)) ELSE ds

RECURSIVE LexGreater(_, _)
\* a > b for digit strings of the same length
LexGreater(a, b) ==
    IF a = <<>> THEN FALSE
    ELSE IF DigitVal(a[1]) # DigitVal(b[1]) THEN DigitVal(a[1]) > DigitVal(b[1])
    ELSE LexGreater(Tail(a), Tail(b))

\* a > b for canonical numerals
Greater(a, b) ==
    \/ Len(a) > Len(b)
    \/ Len(a) = Len(b) /\ LexGreater(a, b)

upperhex ==
    <<"0", "1", "2", "3", "4", "5", "6", "7", "8", "9", "A", "B", "C", "D", "E", "F">>

\* strconv: const lowerhex = "0123456789abcdef"
lowerhex ==
    <<"0", "1", "2", "3", "4", "5", "6", "7", "8", "9", "a", "b", "c", "d", "e", "f">>

RECURSIVE hexName(_, _)
\* n in w upper-case hexadecimal digits, as one string
hexName(n, w) ==
    IF w = 0 THEN "" ELSE hexName(n \div 16, w - 1) \o upperhex[(n % 16) + 1]

\* the name of code point r: "U+" and its hexadecimal digits, four at least
nameOf(r) ==
    "U+" \o (IF r < 65536 THEN ""
             ELSE IF r < 1048576 THEN hexName(r \div 65536, 1)
             ELSE hexName(r \div 65536, 2))
         \o hexName(r % 65536, 4)

\* the code point a name "U+XXXX" stands for (the largest is U+10FFFF)
codeOf(c) ==
    LET p == IF Len(c) = 6 THEN 0
             ELSE IF Len(c) = 8 THEN 16
             ELSE CHOOSE v \in 1..15 :
                    \E l \in 0..65535 : nameOf(v * 65536 + l) = c
    IN  p * 65536 + (CHOOSE l \in 0..65535 : nameOf(p * 65536 + l) = c)

\* the byte an invalid byte "0xNN" stands for
byteOf(c) == CHOOSE b \in 128..255 : "0x" \o hexName(b, 2) = c

\* the code points strconv.IsPrint accepts: the letters, marks, numbers,
\* punctuation and symbols (general categories L, M, N, P and S) and the
\* ASCII space, as ranges <<first, last>>.  The ranges are those of Unicode
\* 15.0.0, the version of the tables of strconv from Go 1.21 on; a toolchain
\* up to Go 1.20 has the tables of an earlier version, in which the code
\* points assigned since (U+061D, U+0CF3, ...) are not printable.
printable ==
    <<<<32, 126>>, <<161, 172>>, <<174, 887>>, <<890, 895>>, <<900, 906>>,
      <<908, 908>>, <<910, 929>>, <<931, 1327>>, <<1329, 1366>>,
      <<1369, 1418>>, <<1421, 1423>>, <<1425, 1479>>, <<1488, 1514>>,
      <<1519, 1524>>, <<1542, 1563>>, <<1565, 1756>>, <<1758, 1805>>,
      <<1808, 1866>>, <<1869, 1969>>, <<1984, 2042>>, <<2045, 2093>>,
      <<2096, 2110>>, <<2112, 2139>>, <<2142, 2142>>, <<2144, 2154>>,
      <<2160, 2190>>, <<2200, 2273>>, <<2275, 2435>>, <<2437, 2444>>,
      <<2447, 2448>>, <<2451, 2472>>, <<2474, 2480>>, <<2482, 2482>>,
      <<2486, 2489>>, <<2492, 2500>>, <<2503, 2504>>, <<2507, 2510>>,
      <<2519, 2519>>, <<2524, 2525>>, <<2527, 2531>>, <<2534, 2558>>,
      <<2561, 2563>>, <<2565, 2570>>, <<2575, 2576>>, <<2579, 2600>>,
      <<2602, 2608>>, <<2610, 2611>>, <<2613, 2614>>, <<2616, 2617>>,
      <<2620, 2620>>, <<2622, 2626>>, <<2631, 2632>>, <<2635, 2637>>,
      <<2641, 2641>>, <<2649, 2652>>, <<2654, 2654>>, <<2662, 2678>>,
      <<2689, 2691>>, <<2693, 2701>>, <<2703, 2705>>, <<2707, 2728>>,
      <<2730, 2736>>, <<2738, 2739>>, <<2741, 2745>>, <<2748, 2757>>,
      <<2759, 2761>>, <<2763, 2765>>, <<2768, 2768>>, <<2784, 2787>>,
      <<2790, 2801>>, <<2809, 2815>>, <<2817, 2819>>, <<2821, 2828>>,
      <<2831, 2832>>, <<2835, 2856>>, <<2858, 2864>>, <<2866, 2867>>,
      <<2869, 2873>>, <<2876, 2884>>, <<2887, 2888>>, <<2891, 2893>>,
      <<2901, 2903>>, <<2908, 2909>>, <<2911, 2915>>, <<2918, 2935>>,
      <<2946, 2947>>, <<2949, 2954>>, <<2958, 2960>>, <<2962, 2965>>,
      <<2969, 2970>>, <<2972, 2972>>, <<2974, 2975>>, <<2979, 2980>>,
      <<2984, 2986>>, <<2990, 3001>>, <<3006, 3010>>, <<3014, 3016>>,
      <<3018, 3021>>, <<3024, 3024>>, <<3031, 3031>>, <<3046, 3066>>,
      <<3072, 3084>>, <<3086, 3088>>, <<3090, 3112>>, <<3114, 3129>>,
      <<3132, 3140>>, <<3142, 3144>>, <<3146, 3149>>, <<3157, 3158>>,
      <<3160, 3162>>, <<3165, 3165>>, <<3168, 3171>>, <<3174, 3183>>,
      <<3191, 3212>>, <<3214, 3216>>, <<3218, 3240>>, <<3242, 3251>>,
      <<3253, 3257>>, <<3260, 3268>>, <<3270, 3272>>, <<3274, 3277>>,
      <<3285, 3286>>, <<3293, 3294>>, <<3296, 3299>>, <<3302, 3311>>,
      <<3313, 3315>>, <<3328, 3340>>, <<3342, 3344>>, <<3346, 3396>>,
      <<3398, 3400>>, <<3402, 3407>>, <<3412, 3427>>, <<3430, 3455>>,
      <<3457, 3459>>, <<3461, 3478>>, <<3482, 3505>>, <<3507, 3515>>,
      <<3517, 3517>>, <<3520, 3526>>, <<3530, 3530>>, <<3535, 3540>>,
      <<3542, 3542>>, <<3544, 3551>>, <<3558, 3567>>, <<3570, 3572>>,
      <<3585, 3642>>, <<3647, 3675>>, <<3713, 3714>>, <<3716, 3716>>,
      <<3718, 3722>>, <<3724, 3747>>, <<3749, 3749>>, <<3751, 3773>>,
      <<3776, 3780>>, <<3782, 3782>>, <<3784, 3790>>, <<3792, 3801>>,
      <<3804, 3807>>, <<3840, 3911>>, <<3913, 3948>>, <<3953, 3991>>,
      <<3993, 4028>>, <<4030, 4044>>, <<4046, 4058>>, <<4096, 4293>>,
      <<4295, 4295>>, <<4301, 4301>>, <<4304, 4680>>, <<4682, 4685>>,
      <<4688, 4694>>, <<4696, 4696>>, <<4698, 4701>>, <<4704, 4744>>,
      <<4746, 4749>>, <<4752, 4784>>, <<4786, 4789>>, <<4792, 4798>>,
      <<4800, 4800>>, <<4802, 4805>>, <<4808, 4822>>, <<4824, 4880>>,
      <<4882, 4885>>, <<4888, 4954>>, <<4957, 4988>>, <<4992, 5017>>,
      <<5024, 5109>>, <<5112, 5117>>, <<5120, 5759>>, <<5761, 5788>>,
      <<5792, 5880>>, <<5888, 5909>>, <<5919, 5942>>, <<5952, 5971>>,
      <<5984, 5996>>, <<5998, 6000>>, <<6002, 6003>>, <<6016, 6109>>,
      <<6112, 6121>>, <<6128, 6137>>, <<6144, 6157>>, <<6159, 6169>>,
      <<6176, 6264>>, <<6272, 6314>>, <<6320, 6389>>, <<6400, 6430>>,
      <<6432, 6443>>, <<6448, 6459>>, <<6464, 6464>>, <<6468, 6509>>,
      <<6512, 6516>>, <<6528, 6571>>, <<6576, 6601>>, <<6608, 6618>>,
      <<6622, 6683>>, <<6686, 6750>>, <<6752, 6780>>, <<6783, 6793>>,
      <<6800, 6809>>, <<6816, 6829>>, <<6832, 6862>>, <<6912, 6988>>,
      <<6992, 7038>>, <<7040, 7155>>, <<7164, 7223>>, <<7227, 7241>>,
      <<7245, 7304>>, <<7312, 7354>>, <<7357, 7367>>, <<7376, 7418>>,
      <<7424, 7957>>, <<7960, 7965>>, <<7968, 8005>>, <<8008, 8013>>,
      <<8016, 8023>>, <<8025, 8025>>, <<8027, 8027>>, <<8029, 8029>>,
      <<8031, 8061>>, <<8064, 8116>>, <<8118, 8132>>, <<8134, 8147>>,
      <<8150, 8155>>, <<8157, 8175>>, <<8178, 8180>>, <<8182, 8190>>,
      <<8208, 8231>>, <<8240, 8286>>, <<8304, 8305>>, <<8308, 8334>>,
      <<8336, 8348>>, <<8352, 8384>>, <<8400, 8432>>, <<8448, 8587>>,
      <<8592, 9254>>, <<9280, 9290>>, <<9312, 11123>>, <<11126, 11157>>,
      <<11159, 11507>>, <<11513, 11557>>, <<11559, 11559>>, <<11565, 11565>>,
      <<11568, 11623>>, <<11631, 11632>>, <<11647, 11670>>, <<11680, 11686>>,
      <<11688, 11694>>, <<11696, 11702>>, <<11704, 11710>>, <<11712, 11718>>,
      <<11720, 11726>>, <<11728, 11734>>, <<11736, 11742>>, <<11744, 11869>>,
      <<11904, 11929>>, <<11931, 12019>>, <<12032, 12245>>, <<12272, 12283>>,
      <<12289, 12351>>, <<12353, 12438>>, <<12441, 12543>>, <<12549, 12591>>,
      <<12593, 12686>>, <<12688, 12771>>, <<12784, 12830>>, <<12832, 42124>>,
      <<42128, 42182>>, <<42192, 42539>>, <<42560, 42743>>, <<42752, 42954>>,
      <<42960, 42961>>, <<42963, 42963>>, <<42965, 42969>>, <<42994, 43052>>,
      <<43056, 43065>>, <<43072, 43127>>, <<43136, 43205>>, <<43214, 43225>>,
      <<43232, 43347>>, <<43359, 43388>>, <<43392, 43469>>, <<43471, 43481>>,
      <<43486, 43518>>, <<43520, 43574>>, <<43584, 43597>>, <<43600, 43609>>,
      <<43612, 43714>>, <<43739, 43766>>, <<43777, 43782>>, <<43785, 43790>>,
      <<43793, 43798>>, <<43808, 43814>>, <<43816, 43822>>, <<43824, 43883>>,
      <<43888, 44013>>, <<44016, 44025>>, <<44032, 55203>>, <<55216, 55238>>,
      <<55243, 55291>>, <<63744, 64109>>, <<64112, 64217>>, <<64256, 64262>>,
      <<64275, 64279>>, <<64285, 64310>>, <<64312, 64316>>, <<64318, 64318>>,
      <<64320, 64321>>, <<64323, 64324>>, <<64326, 64450>>, <<64467, 64911>>,
      <<64914, 64967>>, <<64975, 64975>>, <<65008, 65049>>, <<65056, 65106>>,
      <<65108, 65126>>, <<65128, 65131>>, <<65136, 65140>>, <<65142, 65276>>,
      <<65281, 65470>>, <<65474, 65479>>, <<65482, 65487>>, <<65490, 65495>>,
      <<65498, 65500>>, <<65504, 65510>>, <<65512, 65518>>, <<65532, 65533>>,
      <<65536, 65547>>, <<65549, 65574>>, <<65576, 65594>>, <<65596, 65597>>,
      <<65599, 65613>>, <<65616, 65629>>, <<65664, 65786>>, <<65792, 65794>>,
      <<65799, 65843>>, <<65847, 65934>>, <<65936, 65948>>, <<65952, 65952>>,
      <<66000, 66045>>, <<66176, 66204>>, <<66208, 66256>>, <<66272, 66299>>,
      <<66304, 66339>>, <<66349, 66378>>, <<66384, 66426>>, <<66432, 66461>>,
      <<66463, 66499>>, <<66504, 66517>>, <<66560, 66717>>, <<66720, 66729>>,
      <<66736, 66771>>, <<66776, 66811>>, <<66816, 66855>>, <<66864, 66915>>,
      <<66927, 66938>>, <<66940, 66954>>, <<66956, 66962>>, <<66964, 66965>>,
      <<66967, 66977>>, <<66979, 66993>>, <<66995, 67001>>, <<67003, 67004>>,
      <<67072, 67382>>, <<67392, 67413>>, <<67424, 67431>>, <<67456, 67461>>,
      <<67463, 67504>>, <<67506, 67514>>, <<67584, 67589>>, <<67592, 67592>>,
      <<67594, 67637>>, <<67639, 67640>>, <<67644, 67644>>, <<67647, 67669>>,
      <<67671, 67742>>, <<67751, 67759>>, <<67808, 67826>>, <<67828, 67829>>,
      <<67835, 67867>>, <<67871, 67897>>, <<67903, 67903>>, <<67968, 68023>>,
      <<68028, 68047>>, <<68050, 68099>>, <<68101, 68102>>, <<68108, 68115>>,
      <<68117, 68119>>, <<68121, 68149>>, <<68152, 68154>>, <<68159, 68168>>,
      <<68176, 68184>>, <<68192, 68255>>, <<68288, 68326>>, <<68331, 68342>>,
      <<68352, 68405>>, <<68409, 68437>>, <<68440, 68466>>, <<68472, 68497>>,
      <<68505, 68508>>, <<68521, 68527>>, <<68608, 68680>>, <<68736, 68786>>,
      <<68800, 68850>>, <<68858, 68903>>, <<68912, 68921>>, <<69216, 69246>>,
      <<69248, 69289>>, <<69291, 69293>>, <<69296, 69297>>, <<69373, 69415>>,
      <<69424, 69465>>, <<69488, 69513>>, <<69552, 69579>>, <<69600, 69622>>,
      <<69632, 69709>>, <<69714, 69749>>, <<69759, 69820>>, <<69822, 69826>>,
      <<69840, 69864>>, <<69872, 69881>>, <<69888, 69940>>, <<69942, 69959>>,
      <<69968, 70006>>, <<70016, 70111>>, <<70113, 70132>>, <<70144, 70161>>,
      <<70163, 70209>>, <<70272, 70278>>, <<70280, 70280>>, <<70282, 70285>>,
      <<70287, 70301>>, <<70303, 70313>>, <<70320, 70378>>, <<70384, 70393>>,
      <<70400, 70403>>, <<70405, 70412>>, <<70415, 70416>>, <<70419, 70440>>,
      <<70442, 70448>>, <<70450, 70451>>, <<70453, 70457>>, <<70459, 70468>>,
      <<70471, 70472>>, <<70475, 70477>>, <<70480, 70480>>, <<70487, 70487>>,
      <<70493, 70499>>, <<70502, 70508>>, <<70512, 70516>>, <<70656, 70747>>,
      <<70749, 70753>>, <<70784, 70855>>, <<70864, 70873>>, <<71040, 71093>>,
      <<71096, 71133>>, <<71168, 71236>>, <<71248, 71257>>, <<71264, 71276>>,
      <<71296, 71353>>, <<71360, 71369>>, <<71424, 71450>>, <<71453, 71467>>,
      <<71472, 71494>>, <<71680, 71739>>, <<71840, 71922>>, <<71935, 71942>>,
      <<71945, 71945>>, <<71948, 71955>>, <<71957, 71958>>, <<71960, 71989>>,
      <<71991, 71992>>, <<71995, 72006>>, <<72016, 72025>>, <<72096, 72103>>,
      <<72106, 72151>>, <<72154, 72164>>, <<72192, 72263>>, <<72272, 72354>>,
      <<72368, 72440>>, <<72448, 72457>>, <<72704, 72712>>, <<72714, 72758>>,
      <<72760, 72773>>, <<72784, 72812>>, <<72816, 72847>>, <<72850, 72871>>,
      <<72873, 72886>>, <<72960, 72966>>, <<72968, 72969>>, <<72971, 73014>>,
      <<73018, 73018>>, <<73020, 73021>>, <<73023, 73031>>, <<73040, 73049>>,
      <<73056, 73061>>, <<73063, 73064>>, <<73066, 73102>>, <<73104, 73105>>,
      <<73107, 73112>>, <<73120, 73129>>, <<73440, 73464>>, <<73472, 73488>>,
      <<73490, 73530>>, <<73534, 73561>>, <<73648, 73648>>, <<73664, 73713>>,
      <<73727, 74649>>, <<74752, 74862>>, <<74864, 74868>>, <<74880, 75075>>,
      <<77712, 77810>>, <<77824, 78895>>, <<78912, 78933>>, <<82944, 83526>>,
      <<92160, 92728>>, <<92736, 92766>>, <<92768, 92777>>, <<92782, 92862>>,
      <<92864, 92873>>, <<92880, 92909>>, <<92912, 92917>>, <<92928, 92997>>,
      <<93008, 93017>>, <<93019, 93025>>, <<93027, 93047>>, <<93053, 93071>>,
      <<93760, 93850>>, <<93952, 94026>>, <<94031, 94087>>, <<94095, 94111>>,
      <<94176, 94180>>, <<94192, 94193>>, <<94208, 100343>>,
      <<100352, 101589>>, <<101632, 101640>>, <<110576, 110579>>,
      <<110581, 110587>>, <<110589, 110590>>, <<110592, 110882>>,
      <<110898, 110898>>, <<110928, 110930>>, <<110933, 110933>>,
      <<110948, 110951>>, <<110960, 111355>>, <<113664, 113770>>,
      <<113776, 113788>>, <<113792, 113800>>, <<113808, 113817>>,
      <<113820, 113823>>, <<118528, 118573>>, <<118576, 118598>>,
      <<118608, 118723>>, <<118784, 119029>>, <<119040, 119078>>,
      <<119081, 119154>>, <<119163, 119274>>, <<119296, 119365>>,
      <<119488, 119507>>, <<119520, 119539>>, <<119552, 119638>>,
      <<119648, 119672>>, <<119808, 119892>>, <<119894, 119964>>,
      <<119966, 119967>>, <<119970, 119970>>, <<119973, 119974>>,
      <<119977, 119980>>, <<119982, 119993>>, <<119995, 119995>>,
      <<119997, 120003>>, <<120005, 120069>>, <<120071, 120074>>,
      <<120077, 120084>>, <<120086, 120092>>, <<120094, 120121>>,
      <<120123, 120126>>, <<120128, 120132>>, <<120134, 120134>>,
      <<120138, 120144>>, <<120146, 120485>>, <<120488, 120779>>,
      <<120782, 121483>>, <<121499, 121503>>, <<121505, 121519>>,
      <<122624, 122654>>, <<122661, 122666>>, <<122880, 122886>>,
      <<122888, 122904>>, <<122907, 122913>>, <<122915, 122916>>,
      <<122918, 122922>>, <<122928, 122989>>, <<123023, 123023>>,
      <<123136, 123180>>, <<123184, 123197>>, <<123200, 123209>>,
      <<123214, 123215>>, <<123536, 123566>>, <<123584, 123641>>,
      <<123647, 123647>>, <<124112, 124153>>, <<124896, 124902>>,
      <<124904, 124907>>, <<124909, 124910>>, <<124912, 124926>>,
      <<124928, 125124>>, <<125127, 125142>>, <<125184, 125259>>,
      <<125264, 125273>>, <<125278, 125279>>, <<126065, 126132>>,
      <<126209, 126269>>, <<126464, 126467>>, <<126469, 126495>>,
      <<126497, 126498>>, <<126500, 126500>>, <<126503, 126503>>,
      <<126505, 126514>>, <<126516, 126519>>, <<126521, 126521>>,
      <<126523, 126523>>, <<126530, 126530>>, <<126535, 126535>>,
      <<126537, 126537>>, <<126539, 126539>>, <<126541, 126543>>,
      <<126545, 126546>>, <<126548, 126548>>, <<126551, 126551>>,
      <<126553, 126553>>, <<126555, 126555>>, <<126557, 126557>>,
      <<126559, 126559>>, <<126561, 126562>>, <<126564, 126564>>,
      <<126567, 126570>>, <<126572, 126578>>, <<126580, 126583>>,
      <<126585, 126588>>, <<126590, 126590>>, <<126592, 126601>>,
      <<126603, 126619>>, <<126625, 126627>>, <<126629, 126633>>,
      <<126635, 126651>>, <<126704, 126705>>, <<126976, 127019>>,
      <<127024, 127123>>, <<127136, 127150>>, <<127153, 127167>>,
      <<127169, 127183>>, <<127185, 127221>>, <<127232, 127405>>,
      <<127462, 127490>>, <<127504, 127547>>, <<127552, 127560>>,
      <<127568, 127569>>, <<127584, 127589>>, <<127744, 128727>>,
      <<128732, 128748>>, <<128752, 128764>>, <<128768, 128886>>,
      <<128891, 128985>>, <<128992, 129003>>, <<129008, 129008>>,
      <<129024, 129035>>, <<129040, 129095>>, <<129104, 129113>>,
      <<129120, 129159>>, <<129168, 129197>>, <<129200, 129201>>,
      <<129280, 129619>>, <<129632, 129645>>, <<129648, 129660>>,
      <<129664, 129672>>, <<129680, 129725>>, <<129727, 129733>>,
      <<129742, 129755>>, <<129760, 129768>>, <<129776, 129784>>,
      <<129792, 129938>>, <<129940, 129994>>, <<130032, 130041>>,
      <<131072, 173791>>, <<173824, 177977>>, <<177984, 178205>>,
      <<178208, 183969>>, <<183984, 191456>>, <<194560, 195101>>,
      <<196608, 201546>>, <<201552, 205743>>, <<917760, 917999>>>>

\* strconv.IsPrint
IsPrint(r) ==
    \E i \in 1..Len(printable) : printable[i][1] <= r /\ r <= printable[i][2]

RECURSIVE hex(_, _)
\* n in w digits of lowerhex
hex(n, w) ==
    IF w = 0 THEN <<>> ELSE hex(n \div 16, w - 1) \o <<lowerhex[(n % 16) + 1]>>

\* strconv.appendEscapedRune for the code point r, named c, that is neither
\* '"' nor '\\': copied when printable, else '\a' '\b' '\f' '\n' '\r' '\t'
\* '\v' by name, the other control characters as \xNN, the rest as \uNNNN,
\* or as \UNNNNNNNN from U+10000 on
escapedCode(c, r) ==
    IF IsPrint(r) THEN <<c>>
    ELSE IF r = 7 THEN <<"\\", "a">>
    ELSE IF r = 8 THEN <<"\\", "b">>
    ELSE IF r = 12 THEN <<"\\", "f">>
    ELSE IF r = 10 THEN <<"\\", "n">>
    ELSE IF r = 13 THEN <<"\\", "r">>
    ELSE IF r = 9 THEN <<"\\", "t">>
    ELSE IF r = 11 THEN <<"\\", "v">>
    ELSE IF r < 32 \/ r = 127 THEN <<"\\", "x">> \o hex(r, 2)
    ELSE IF r < 65536 THEN <<"\\", "u">> \o hex(r, 4)
    ELSE <<"\\", "U">> \o hex(r, 8)

\* what strconv.Quote writes for one character of the string: an invalid byte
\* as \xNN, '"' and '\\' behind a backslash, any other as appendEscapedRune
\* writes it
appendEscapedRune(c) ==
    IF c = "\"" \/ c = "\\" THEN <<"\\", c>>
    ELSE IF c = "\t" THEN escapedCode(c, 9)
    ELSE IF c = "\n" THEN escapedCode(c, 10)
    ELSE IF c = "\f" THEN escapedCode(c, 12)
    ELSE IF c = "\r" THEN escapedCode(c, 13)
    ELSE IF Len(c) = 1 THEN <<c>>
    ELSE IF Len(c) = 4 THEN <<"\\", "x">> \o hex(byteOf(c), 2)
    ELSE escapedCode(c, codeOf(c))

RECURSIVE quoted(_)
\* the characters of a string as strconv.Quote writes them
quoted(cs) ==
    IF cs = <<>> THEN <<>>
    ELSE appendEscapedRune(cs[1]) \o quoted(Tail(cs))

\* strconv.Quote
Quote(cs) == <<"\"">> \o quoted(cs) \o <<"\"">>

\* (*strconv.NumError).Error() of ParseUint's ErrSyntax:
\* "strconv.ParseUint: parsing " + Quote(s) + ": invalid syntax"
syntaxError(cs) ==
    <<<<"s", "t", "r", "c", "o", "n", "v", ".", "P", "a", "r", "s", "e", "U",
        "i", "n", "t", ":", " ", "p", "a", "r", "s", "i", "n", "g", " ">>
      \o Quote(cs)
      \o <<":", " ", "i", "n", "v", "a", "l", "i", "d", " ", "s", "y", "n",
           "t", "a", "x">>>>

\* (*strconv.NumError).Error() of ParseUint's ErrRange:
\* "strconv.ParseUint: parsing " + Quote(s) + ": value out of range"
rangeError(cs) ==
    <<<<"s", "t", "r", "c", "o", "n", "v", ".", "P", "a", "r", "s", "e", "U",
        "i", "n", "t", ":", " ", "p", "a", "r", "s", "i", "n", "g", " ">>
      \o Quote(cs)
      \o <<":", " ", "v", "a", "l", "u", "e", " ", "o", "u", "t", " ", "o",
           "f", " ", "r", "a", "n", "g", "e">>>>

RECURSIVE scanDigits(_, _, _)
\* ParseUint's loop over the characters: acc is the value read so far
scanDigits(cs, i, acc) ==
    IF i > Len(cs) THEN <<acc, <<>>>>
    ELSE IF ~IsDigit(cs[i]) THEN <<Zero, syntaxError(cs)>>
    ELSE LET n == Canon(acc \o <<cs[i]>>)
         IN  IF Greater(n, MaxUint64)
             THEN <<MaxUint64, rangeError(cs)>>
             ELSE scanDigits(cs, i + 1, n)

\* strconv.ParseUint(s, 10, 64): <<value, err>>
ParseUint(cs) ==
    IF cs = <<>> THEN <<Zero, syntaxError(cs)>> ELSE scanDigits(cs, 1, Zero)

\* the conversion uint(v) of a uint64 on a platform whose uint has 64 bits
uint(v) == v

----------------------------------------------------------------------------
(* goquery *)

RECURSIVE Text(_)
\* Selection.Text: the combined text of every node of the selection
Text(sel) == IF sel = <<>> THEN <<>> ELSE sel[1] \o Text(Tail(sel))

RECURSIVE Find(_, _)
\* Selection.Find: the matching descendants of every node, in document order
Find(sel, selector) ==
    IF sel = <<>> THEN <<>>
    ELSE (IF selector \in DOMAIN sel[1] THEN sel[1][selector] ELSE <<>>)
         \o Find(Tail(sel), selector)

\* Selection.First
First(sel) == IF sel = <<>> THEN <<>> ELSE <<sel[1]>>

\* Selection.Last
Last(sel) == IF sel = <<>> THEN <<>> ELSE <<sel[Len(sel)]>>

\* Selection.Attr, the value alone (the code drops the exists flag)
Attr(sel, name) ==
    IF sel = <<>> THEN <<>>
    ELSE IF name \in DOMAIN sel[1] THEN sel[1][name] ELSE <<>>

----------------------------------------------------------------------------
(* Scalar extraction *)

\* fmt.Errorf("no %s found", kind)
notFound(kind) == <<<<"n", "o", " ">> \o kind \o <<" ", "f", "o", "u", "n", "d">>>>

getUintFirstOnly(dd, selector, kind) ==
    LET t == IF selector # ""
             THEN TrimSpace(Text(First(Find(dd, selector))))
             ELSE TrimSpace(Text(dd))
    IN  IF t = <<>> THEN <<Zero, notFound(kind)>>
        ELSE LET p == ParseUint(ReplaceAll(t, ","))
             IN  IF p[2] # <<>> THEN <<Zero, p[2]>> ELSE <<p[1], <<>>>>

getUintKeepsCommas(dd, selector, kind) ==
    LET t == IF selector # ""
             THEN TrimSpace(Text(Find(dd, selector)))
             ELSE TrimSpace(Text(dd))
    IN  IF t = <<>> THEN <<Zero, notFound(kind)>>
        ELSE LET p == ParseUint(t)
             IN  IF p[2] # <<>> THEN <<Zero, p[2]>> ELSE <<p[1], <<>>>>

\* getUint: <<value, err>>; dd is a findable
getUint(dd, selector, kind) ==
    LET t == IF selector # ""
             THEN TrimSpace(Text(Find(dd, selector)))
             ELSE TrimSpace(Text(dd))
    IN  IF t = <<>> THEN <<Zero, notFound(kind)>>
        ELSE LET p == ParseUint(ReplaceAll(t, ","))
             IN  IF p[2] # <<>> THEN <<Zero, p[2]>> ELSE <<p[1], <<>>>>

\* getString: <<value, err>>
getString(dd, selector, kind) ==
    LET t == IF selector # ""
             THEN TrimSpace(Text(Find(dd, selector)))
             ELSE TrimSpace(Text(dd))
    IN  IF t = <<>> THEN <<<<>>, notFound(kind)>> ELSE <<t, <<>>>>

\* kind "global rank"
globalRank(dd) ==
    getUint(dd, seGlobalRank,
        <<"g", "l", "o", "b", "a", "l", " ", "r", "a", "n", "k">>)

\* kind "local rank"
localRank(dd) ==
    getUint(dd, seLocalRank,
        <<"l", "o", "c", "a", "l", " ", "r", "a", "n", "k">>)

\* kind "country"
country(dd) ==
    getString(dd, seCountry,
        <<"c", "o", "u", "n", "t", "r", "y">>)

\* kind "linking total"
linkingTotal(dd) ==
    getUint(dd, seLinkingTotal,
        <<"l", "i", "n", "k", "i", "n", "g", " ", "t", "o", "t", "a", "l">>)

\* kind "site title"
title(dd) ==
    getString(dd, seTitle,
        <<"s", "i", "t", "e", " ", "t", "i", "t", "l", "e">>)

\* kind "site description"
description(dd) ==
    getString(dd, seDescription,
        <<"s", "i", "t", "e", " ", "d", "e", "s", "c", "r", "i", "p", "t",
          "i", "o", "n">>)

noEnoughDataNeedsTwo(dd) == Len(Find(dd, seNoData)) > 1

noEnoughData(dd) == Len(Find(dd, seNoData)) > 0

----------------------------------------------------------------------------
(* Tabular extraction *)

EachReversed(sel) == [i \in 1..Len(sel) |-> <<Len(sel) - i, <<sel[Len(sel) + 1 - i]>>>>]

\* Selection.Each: the calls of the callback, in order, each with the index
\* and the one-node selection it is given; an extractor's callback appends
\* one entry per call to a slice that starts nil (<<>>)
Each(sel) == [i \in 1..Len(sel) |-> <<i - 1, <<sel[i]>>>>]

RECURSIVE Itoa(_)
\* the decimal digits of n, as fmt's %d writes them
Itoa(n) ==
    IF n < 10 THEN <<Digits[n + 1]>>
    ELSE Itoa(n \div 10) \o <<Digits[(n % 10) + 1]>>

\* the callback of visitors, src/asip.go:291-305; the error of getUint is
\* assigned to _; the kind is fmt.Sprintf("%d country rank", i)
visitorOf(i, tr) ==
    [Country   |-> TrimSpace(Text(Find(tr, "td a"))),
     Percent   |-> TrimSpace(Text(First(Find(tr, "td span")))),
     LocalRank |-> uint(getUint(Last(Find(tr, "td span")), "",
                   Itoa(i) \o <<" ", "c", "o", "u", "n", "t", "r", "y", " ", "r", "a", "n", "k">>)[1])]

visitorsFailsOnNoRows(dd) ==
    LET tbody == Find(dd, seVisitors)
    IN  IF Len(Find(tbody, "tr")) = 0
        \* errors.New("no visitors found")
        THEN <<<<>>, <<<<"n", "o", " ", "v", "i", "s", "i", "t", "o", "r", "s",
                       " ", "f", "o", "u", "n", "d">>>>>>
        ELSE LET cs == Each(Find(tbody, "tr"))
             IN  <<[k \in 1..Len(cs) |-> visitorOf(cs[k][1], cs[k][2])], <<>>>>

visitors(dd) ==
    LET tbody == Find(dd, seVisitors)
    IN  IF Len(tbody) = 0
        \* errors.New("no visitors found")
        THEN <<<<>>, <<<<"n", "o", " ", "v", "i", "s", "i", "t", "o", "r", "s",
                       " ", "f", "o", "u", "n", "d">>>>>>
        ELSE LET cs == Each(Find(tbody, "tr"))
             IN  <<[k \in 1..Len(cs) |-> visitorOf(cs[k][1], cs[k][2])], <<>>>>

keywordOf(i, tr) ==
    [Word    |-> TrimSpace(Text(Find(tr, "td:first-child span:last-child"))),
     Percent |-> TrimSpace(Text(Find(tr, "td:last-child span")))]

keywordsSkipsBlankRows(dd) ==
    LET tbody == Find(dd, seKeywords)
    IN  IF Len(tbody) = 0
        \* errors.New("no keywords found")
        THEN <<<<>>, <<<<"n", "o", " ", "k", "e", "y", "w", "o", "r", "d", "s",
                       " ", "f", "o", "u", "n", "d">>>>>>
        ELSE LET cs == Each(Find(tbody, "tr"))
             IN  <<SelectSeq([k \in 1..Len(cs) |-> keywordOf(cs[k][1], cs[k][2])],
                             LAMBDA e : e.Percent # <<>>), <<>>>>

keywords(dd) ==
    LET tbody == Find(dd, seKeywords)
    IN  IF Len(tbody) = 0
        \* errors.New("no keywords found")
        THEN <<<<>>, <<<<"n", "o", " ", "k", "e", "y", "w", "o", "r", "d", "s",
                       " ", "f", "o", "u", "n", "d">>>>>>
        ELSE LET cs == Each(Find(tbody, "tr"))
             IN  <<[k \in 1..Len(cs) |-> keywordOf(cs[k][1], cs[k][2])], <<>>>>

upstreamOf(i, tr) ==
    [Site    |-> TrimSpace(Text(Find(tr, "td a"))),
     Percent |-> TrimSpace(Text(Find(tr, "td:last-child span")))]

upstreams(dd) ==
    LET tbody == Find(dd, seUpstreams)
    IN  IF Len(tbody) = 0
        \* errors.New("no upstream servers found")
        THEN <<<<>>, <<<<"n", "o", " ", "u", "p", "s", "t", "r", "e", "a", "m",
                       " ", "s", "e", "r", "v", "e", "r", "s", " ", "f", "o",
                       "u", "n", "d">>>>>>
        ELSE LET cs == Each(Find(tbody, "tr"))
             IN  <<[k \in 1..Len(cs) |-> upstreamOf(cs[k][1], cs[k][2])], <<>>>>

linkOf(i, tr) ==
    [Site |-> TrimSpace(Text(Find(tr, "span.word-wrap a"))),
     Page |-> Attr(Find(tr, "a.word-wrap"), "href")]

linksFrom(dd) ==
    LET tbody == Find(dd, seLinks)
    IN  IF Len(tbody) = 0
        \* errors.New("no linking sites found")
        THEN <<<<>>, <<<<"n", "o", " ", "l", "i", "n", "k", "i", "n", "g", " ",
                       "s", "i", "t", "e", "s", " ", "f", "o", "u", "n", "d">>>>>>
        ELSE LET cs == Each(Find(tbody, "tr"))
             IN  <<[k \in 1..Len(cs) |-> linkOf(cs[k][1], cs[k][2])], <<>>>>

relatedOf(i, tr) == Text(Find(tr, "a"))

related(dd) ==
    LET tbody == Find(dd, seRelated)
    IN  IF Len(tbody) = 0
        \* errors.New("no related sites found")
        THEN <<<<>>, <<<<"n", "o", " ", "r", "e", "l", "a", "t", "e", "d", " ",
                       "s", "i", "t", "e", "s", " ", "f", "o", "u", "n", "d">>>>>>
        ELSE LET cs == Each(Find(tbody, "tr"))
             IN  <<[k \in 1..Len(cs) |-> relatedOf(cs[k][1], cs[k][2])], <<>>>>

categoryOf(i, a) == Text(a)

\* tbody.Find("a"): the anchors of a table body are those of its rows
categories(dd) ==
    LET tbody == Find(dd, seCategories)
    IN  IF Len(tbody) = 0
        \* errors.New("no categories found")
        THEN <<<<>>, <<<<"n", "o", " ", "c", "a", "t", "e", "g", "o", "r", "i",
                       "e", "s", " ", "f", "o", "u", "n", "d">>>>>>
        ELSE LET cs == Each(Find(Find(tbody, "tr"), "a"))
             IN  <<[k \in 1..Len(cs) |-> categoryOf(cs[k][1], cs[k][2])], <<>>>>

subdomainOf(i, tr) ==
    [Domain  |-> Text(Find(tr, "td:first-child span")),
     Percent |-> Text(Find(tr, "td:last-child span"))]

subdomains(dd) ==
    LET tbody == Find(dd, seSubdomains)
    IN  IF Len(tbody) = 0
        \* errors.New("no subdomains found")
        THEN <<<<>>, <<<<"n", "o", " ", "s", "u", "b", "d", "o", "m", "a", "i",
                       "n", "s", " ", "f", "o", "u", "n", "d">>>>>>
        ELSE LET cs == Each(Find(tbody, "tr"))
             IN  <<[k \in 1..Len(cs) |-> subdomainOf(cs[k][1], cs[k][2])], <<>>>>

----------------------------------------------------------------------------
(* The record, src/asip.go:46-61 *)

\* the zero value of Site
ZeroSite ==
    [Title |-> <<>>, Description |-> <<>>, MainCountry |-> <<>>,
     GlobalRank |-> Zero, LocalRank |-> Zero, LinkingTotal |-> Zero,
     Visitors |-> <<>>, Keywords |-> <<>>, Upstreams |-> <<>>,
     Related |-> <<>>, Subdomains |-> <<>>, Categories |-> <<>>,
     LinksFrom |-> <<>>]

----------------------------------------------------------------------------
(* siteInfo and parse, one action per step *)

\* "https://www.alexa.com/siteinfo/example.com"
domain ==
    <<"h", "t", "t", "p", "s", ":", "/", "/", "w", "w", "w", ".", "a", "l",
      "e", "x", "a", ".", "c", "o", "m", "/", "s", "i", "t", "e", "i", "n",
      "f", "o", "/", "e", "x", "a", "m", "p", "l", "e", ".", "c", "o", "m">>

\* fmt.Errorf("status code: %d, no data for %s?", resp.StatusCode, domain)
statusError(code) ==
    <<<<"s", "t", "a", "t", "u", "s", " ", "c", "o", "d", "e", ":", " ">>
      \o Itoa(code)
      \o <<",", " ", "n", "o", " ", "d", "a", "t", "a", " ", "f", "o", "r", " ">>
      \o domain \o <<"?">>>>

siteInfoFetchIgnoresStatus ==
    /\ pc = "siteInfo"
    /\ IF resp[2] # <<>>
       THEN ret' = <<<<>>, resp[2]>> /\ pc' = "done"
       ELSE ret' = ret /\ pc' = "parse"
    /\ UNCHANGED <<resp, d, s, attempted, parseRet, arg, called, result>>

\* siteInfo up to the call of parse: f(domain) and the status test
siteInfoFetch ==
    /\ pc = "siteInfo"
    /\ IF resp[2] # <<>>
       THEN ret' = <<<<>>, resp[2]>> /\ pc' = "done"
       ELSE IF resp[1][1].StatusCode # StatusOK
       THEN ret' = <<<<>>, statusError(resp[1][1].StatusCode)>> /\ pc' = "done"
       ELSE ret' = ret /\ pc' = "parse"
    /\ UNCHANGED <<resp, d, s, attempted, parseRet, arg, called, result>>

\* goquery.NewDocumentFromReader(body): fails when the body cannot be read
parseDocument ==
    /\ pc = "parse"
    /\ LET body == resp[1][1].Body
       IN  IF body.readErr # <<>>
           THEN parseRet' = <<<<>>, body.readErr>> /\ d' = d /\ pc' = "parsed"
           ELSE parseRet' = parseRet /\ d' = <<body.root>> /\ pc' = "noEnoughData"
    /\ UNCHANGED <<resp, s, attempted, ret, arg, called, result>>

parseNoData ==
    /\ pc = "noEnoughData"
    /\ IF noEnoughData(d)
       THEN parseRet' = <<<<>>, <<ErrNoEnoughData>>>> /\ pc' = "parsed"
       ELSE parseRet' = parseRet /\ pc' = "globalRank"
    /\ UNCHANGED <<resp, d, s, attempted, ret, arg, called, result>>

\* parse: globalRank(d); on an error, return nil, err
parseGlobalRank ==
    /\ pc = "globalRank"
    /\ attempted' = Append(attempted, "globalRank")
    /\ LET r == globalRank(d)
       IN  IF r[2] # <<>>
           THEN parseRet' = <<<<>>, r[2]>> /\ s' = s /\ pc' = "parsed"
           ELSE /\ s' = [s EXCEPT !.GlobalRank = uint(r[1])]
                /\ pc' = "localRank" /\ parseRet' = parseRet
    /\ UNCHANGED <<resp, d, ret, arg, called, result>>

parseLocalRankGoesOn ==
    /\ pc = "localRank"
    /\ attempted' = Append(attempted, "localRank")
    /\ LET r == localRank(d)
       IN  /\ s' = [s EXCEPT !.LocalRank = uint(r[1])]
           /\ pc' = "country" /\ parseRet' = parseRet
    /\ UNCHANGED <<resp, d, ret, arg, called, result>>

\* parse: localRank(d); on an error, return &s, err
parseLocalRank ==
    /\ pc = "localRank"
    /\ attempted' = Append(attempted, "localRank")
    /\ LET r == localRank(d)
       IN  IF r[2] # <<>>
           THEN parseRet' = <<<<s>>, r[2]>> /\ s' = s /\ pc' = "parsed"
           ELSE /\ s' = [s EXCEPT !.LocalRank = uint(r[1])]
                /\ pc' = "country" /\ parseRet' = parseRet
    /\ UNCHANGED <<resp, d, ret, arg, called, result>>

\* parse: country(d); on an error, return &s, err
parseCountry ==
    /\ pc = "country"
    /\ attempted' = Append(attempted, "country")
    /\ LET r == country(d)
       IN  IF r[2] # <<>>
           THEN parseRet' = <<<<s>>, r[2]>> /\ s' = s /\ pc' = "parsed"
           ELSE /\ s' = [s EXCEPT !.MainCountry = r[1]]
                /\ pc' = "linkingTotal" /\ parseRet' = parseRet
    /\ UNCHANGED <<resp, d, ret, arg, called, result>>

\* parse: linkingTotal(d); on an error, return &s, err
parseLinkingTotal ==
    /\ pc = "linkingTotal"
    /\ attempted' = Append(attempted, "linkingTotal")
    /\ LET r == linkingTotal(d)
       IN  IF r[2] # <<>>
           THEN parseRet' = <<<<s>>, r[2]>> /\ s' = s /\ pc' = "parsed"
           ELSE /\ s' = [s EXCEPT !.LinkingTotal = uint(r[1])]
                /\ pc' = "title" /\ parseRet' = parseRet
    /\ UNCHANGED <<resp, d, ret, arg, called, result>>

\* parse: title(d); on an error, return &s, err
parseTitle ==
    /\ pc = "title"
    /\ attempted' = Append(attempted, "title")
    /\ LET r == title(d)
       IN  IF r[2] # <<>>
           THEN parseRet' = <<<<s>>, r[2]>> /\ s' = s /\ pc' = "parsed"
           ELSE /\ s' = [s EXCEPT !.Title = r[1]]
                /\ pc' = "description" /\ parseRet' = parseRet
    /\ UNCHANGED <<resp, d, ret, arg, called, result>>

\* parse: description(d); on an error, return &s, err
parseDescription ==
    /\ pc = "description"
    /\ attempted' = Append(attempted, "description")
    /\ LET r == description(d)
       IN  IF r[2] # <<>>
           THEN parseRet' = <<<<s>>, r[2]>> /\ s' = s /\ pc' = "parsed"
           ELSE /\ s' = [s EXCEPT !.Description = r[1]]
                /\ pc' = "visitors" /\ parseRet' = parseRet
    /\ UNCHANGED <<resp, d, ret, arg, called, result>>

\* parse: visitors(d); on an error, return &s, err
parseVisitors ==
    /\ pc = "visitors"
    /\ attempted' = Append(attempted, "visitors")
    /\ LET r == visitors(d)
       IN  IF r[2] # <<>>
           THEN parseRet' = <<<<s>>, r[2]>> /\ s' = s /\ pc' = "parsed"
           ELSE /\ s' = [s EXCEPT !.Visitors = r[1]]
                /\ pc' = "keywords" /\ parseRet' = parseRet
    /\ UNCHANGED <<resp, d, ret, arg, called, result>>

\* parse: keywords(d); on an error, return &s, err
parseKeywords ==
    /\ pc = "keywords"
    /\ attempted' = Append(attempted, "keywords")
    /\ LET r == keywords(d)
       IN  IF r[2] # <<>>
           THEN parseRet' = <<<<s>>, r[2]>> /\ s' = s /\ pc' = "parsed"
           ELSE /\ s' = [s EXCEPT !.Keywords = r[1]]
                /\ pc' = "upstreams" /\ parseRet' = parseRet
    /\ UNCHANGED <<resp, d, ret, arg, called, result>>

\* parse: upstreams(d); on an error, return &s, err
parseUpstreams ==
    /\ pc = "upstreams"
    /\ attempted' = Append(attempted, "upstreams")
    /\ LET r == upstreams(d)
       IN  IF r[2] # <<>>
           THEN parseRet' = <<<<s>>, r[2]>> /\ s' = s /\ pc' = "parsed"
           ELSE /\ s' = [s EXCEPT !.Upstreams = r[1]]
                /\ pc' = "linksFrom" /\ parseRet' = parseRet
    /\ UNCHANGED <<resp, d, ret, arg, called, result>>

\* parse: linksFrom(d); on an error, return &s, err
parseLinksFrom ==
    /\ pc = "linksFrom"
    /\ attempted' = Append(attempted, "linksFrom")
    /\ LET r == linksFrom(d)
       IN  IF r[2] # <<>>
           THEN parseRet' = <<<<s>>, r[2]>> /\ s' = s /\ pc' = "parsed"
           ELSE /\ s' = [s EXCEPT !.LinksFrom = r[1]]
                /\ pc' = "related" /\ parseRet' = parseRet
    /\ UNCHANGED <<resp, d, ret, arg, called, result>>

\* parse: related(d); on an error, return &s, err
parseRelated ==
    /\ pc = "related"
    /\ attempted' = Append(attempted, "related")
    /\ LET r == related(d)
       IN  IF r[2] # <<>>
           THEN parseRet' = <<<<s>>, r[2]>> /\ s' = s /\ pc' = "parsed"
           ELSE /\ s' = [s EXCEPT !.Related = r[1]]
                /\ pc' = "categories" /\ parseRet' = parseRet
    /\ UNCHANGED <<resp, d, ret, arg, called, result>>

\* parse: categories(d); on an error, return &s, err
parseCategories ==
    /\ pc = "categories"
    /\ attempted' = Append(attempted, "categories")
    /\ LET r == categories(d)
       IN  IF r[2] # <<>>
           THEN parseRet' = <<<<s>>, r[2]>> /\ s' = s /\ pc' = "parsed"
           ELSE /\ s' = [s EXCEPT !.Categories = r[1]]
                /\ pc' = "subdomains" /\ parseRet' = parseRet
    /\ UNCHANGED <<resp, d, ret, arg, called, result>>

\* parse: subdomains(d); on an error, return &s, err
parseSubdomains ==
    /\ pc = "subdomains"
    /\ attempted' = Append(attempted, "subdomains")
    /\ LET r == subdomains(d)
       IN  IF r[2] # <<>>
           THEN parseRet' = <<<<s>>, r[2]>> /\ s' = s /\ pc' = "parsed"
           ELSE /\ s' = [s EXCEPT !.Subdomains = r[1]]
                /\ parseRet' = <<<<s'>>, <<>>>> /\ pc' = "parsed"
    /\ UNCHANGED <<resp, d, ret, arg, called, result>>

\* siteInfo: return parse(resp.Body)
siteInfoReturn ==
    /\ pc = "parsed"
    /\ ret' = parseRet
    /\ pc' = "done"
    /\ UNCHANGED <<resp, d, s, attempted, parseRet, arg, called, result>>

----------------------------------------------------------------------------
(* Documents: the inputs of parse *)

FieldSelectors ==
    <<seGlobalRank, seLocalRank, seCountry, seLinkingTotal, seTitle,
      seDescription, seVisitors, seKeywords, seUpstreams, seLinks, seRelated,
      seCategories, seSubdomains>>

\* a table body with the given rows
tbodyOf(rows) == "tr" :> rows

\* a page with every section present and well-formed
WellFormed ==
    (seGlobalRank :> <<<<"5", "0", "6">>>>)
    @@ (seLocalRank :> <<<<"\r", "\n", " ", "1", "7", "\r", "\n">>>>)
    @@ (seCountry :> <<<<" ", "R", "u", "s", "s", "i", "a", " ">>>>)
    @@ (seLinkingTotal :> <<<<"8", ",", "4", "9", "1">>>>)
    @@ (seTitle :> <<<<"U+00A0", "S", "b", "e", "r", "\f">>>>)
    @@ (seDescription :> <<<<"B", "a", "n", "k", ".">>>>)
    @@ (seVisitors :> <<tbodyOf(<<("td a" :> <<<<"R", "u", "s", "s", "i", "a">>>> @@ "td span" :> <<<<"8", "3", ".", "8", "%">>, <<"1", "7">>>>), ("td a" :> <<<<"G", "e", "r", "m", "a", "n", "y">>>> @@ "td span" :> <<<<"1", ".", "7", "%">>, <<"1", ",", "3", "6", "6">>>>)>>)>>)
    @@ (seKeywords :> <<tbodyOf(<<("td:first-child span:last-child" :> <<<<"s", "b", "e", "r">>>> @@ "td:last-child span" :> <<<<"7", ".", "8", "7", "%">>>>), ("td:first-child span:last-child" :> <<<<"b", "a", "n", "k">>>> @@ "td:last-child span" :> <<<<"2", ".", "6", "5", "%">>>>)>>)>>)
    @@ (seUpstreams :> <<tbodyOf(<<("td a" :> <<<<"y", "a", "n", "d", "e", "x", ".", "r", "u">>>> @@ "td:last-child span" :> <<<<"2", "1", ".", "4", "%">>>>), ("td a" :> <<<<"v", "k", ".", "c", "o", "m">>>> @@ "td:last-child span" :> <<<<"5", ".", "6", "%">>>>)>>)>>)
    @@ (seLinks :> <<tbodyOf(<<("span.word-wrap a" :> <<<<"m", "i", "t", ".", "e", "d", "u">>>> @@ "a.word-wrap" :> <<"href" :> <<"h", "t", "t", "p", ":", "/", "/", "m", "i", "t", ".", "e", "d", "u", "/", "h">>>>), ("span.word-wrap a" :> <<<<"f", "c", "2", ".", "c", "o", "m">>>> @@ "a.word-wrap" :> <<"href" :> <<"h", "t", "t", "p", ":", "/", "/", "f", "c", "2", ".", "c", "o", "m", "/", "b">>>>)>>)>>)
    @@ (seRelated :> <<tbodyOf(<<("a" :> <<<<"s", "b", "r", "f", ".", "r", "u">>>>), ("a" :> <<<<"b", "a", "n", "k", "i", ".", "r", "u">>>>)>>)>>)
    @@ (seCategories :> <<tbodyOf(<<("a" :> <<<<"W", "o", "r", "l", "d">>, <<"R", "u", "s", "s", "i", "a", "n">>>>), ("a" :> <<<<"B", "a", "n", "k", "s">>>>)>>)>>)
    @@ (seSubdomains :> <<tbodyOf(<<("td:first-child span" :> <<<<"o", "n", "l", "i", "n", "e", ".", "s", "b", "e", "r", ".", "r", "u">>>> @@ "td:last-child span" :> <<<<"6", "9", ".", "6", "9", "%">>>>), ("td:first-child span" :> <<<<"s", "b", "e", "r", ".", "r", "u">>>> @@ "td:last-child span" :> <<<<"2", "8", ".", "3", "0", "%">>>>)>>)>>)
    @@ (seNoData :> <<>>)

\* what a section of a page may hold instead: no match, blank text, several
\* matches, malformed text, an empty table body, a row with blank cells
Alternatives ==
    (seGlobalRank :> <<<<>>,
        <<<<" ">>>>,
        <<<<"n", "/", "a">>>>,
        <<<<"1">>, <<"2">>>>,
        <<<<>>, <<"7">>>>,
        <<<<"1", "8", "4", "4", "6", "7", "4", "4", "0", "7", "3", "7", "0", "9", "5", "5", "1", "6", "1", "6">>>>>>)
    @@ (seLocalRank :> <<<<>>,
        <<<<" ">>>>,
        <<<<"n", "/", "a">>>>,
        <<<<"1">>, <<"2">>>>,
        <<<<>>, <<"7">>>>,
        <<<<"1", "8", "4", "4", "6", "7", "4", "4", "0", "7", "3", "7", "0", "9", "5", "5", "1", "6", "1", "6">>>>>>)
    @@ (seCountry :> <<<<>>,
        <<<<" ", "\n">>>>,
        <<<<"A">>, <<"B">>>>,
        <<<<>>, <<" ", "C">>>>>>)
    @@ (seLinkingTotal :> <<<<>>,
        <<<<" ">>>>,
        <<<<"n", "/", "a">>>>,
        <<<<"1">>, <<"2">>>>,
        <<<<>>, <<"7">>>>,
        <<<<"1", "8", "4", "4", "6", "7", "4", "4", "0", "7", "3", "7", "0", "9", "5", "5", "1", "6", "1", "6">>>>>>)
    @@ (seTitle :> <<<<>>,
        <<<<" ", "\n">>>>,
        <<<<"A">>, <<"B">>>>,
        <<<<>>, <<" ", "C">>>>>>)
    @@ (seDescription :> <<<<>>,
        <<<<" ", "\n">>>>,
        <<<<"A">>, <<"B">>>>,
        <<<<>>, <<" ", "C">>>>>>)
    @@ (seVisitors :> <<<<>>,
        <<tbodyOf(<<>>)>>,
        <<tbodyOf(<<("td a" :> <<>> @@ "td span" :> <<>>)>>)>>,
        <<tbodyOf(<<("td a" :> <<<<"R", "u", "s", "s", "i", "a">>>> @@ "td span" :> <<<<"8", "3", ".", "8", "%">>, <<"n", "/", "a">>>>), ("td a" :> <<<<"G", "e", "r", "m", "a", "n", "y">>>> @@ "td span" :> <<<<"1", ".", "7", "%">>>>)>>)>>>>)
    @@ (seKeywords :> <<<<>>,
        <<tbodyOf(<<>>)>>,
        <<tbodyOf(<<("td:first-child span:last-child" :> <<<<"s", "b", "e", "r">>>> @@ "td:last-child span" :> <<<<" ">>>>)>>)>>>>)
    @@ (seUpstreams :> <<<<>>,
        <<tbodyOf(<<>>)>>,
        <<tbodyOf(<<("td a" :> <<>> @@ "td:last-child span" :> <<<<"5", ".", "6", "%">>>>)>>)>>>>)
    @@ (seLinks :> <<<<>>,
        <<tbodyOf(<<>>)>>,
        <<tbodyOf(<<("span.word-wrap a" :> <<<<"m", "i", "t", ".", "e", "d", "u">>>> @@ "a.word-wrap" :> <<>>)>>)>>>>)
    @@ (seRelated :> <<<<>>,
        <<tbodyOf(<<>>)>>,
        <<tbodyOf(<<("a" :> <<>>)>>)>>>>)
    @@ (seCategories :> <<<<>>,
        <<tbodyOf(<<>>)>>,
        <<tbodyOf(<<("a" :> <<>>)>>)>>>>)
    @@ (seSubdomains :> <<<<>>,
        <<tbodyOf(<<>>)>>,
        <<tbodyOf(<<("td:first-child span" :> <<>> @@ "td:last-child span" :> <<>>)>>)>>>>)

MaxAlternatives == Len(Alternatives[seGlobalRank])

\* the page that holds alternative choice[sel] in each section sel of where
pageWith(where, choice) ==
    [sel \in DOMAIN WellFormed |->
        IF sel \in where THEN Alternatives[sel][choice[sel]] ELSE WellFormed[sel]]

\* the pages that differ from WellFormed in at most MaxDeviations sections
Pages ==
    UNION { { pageWith(where, choice) :
                choice \in { c \in [where -> 1..MaxAlternatives] :
                               \A sel \in where : c[sel] <= Len(Alternatives[sel]) } } :
            where \in { w \in SUBSET { FieldSelectors[i] : i \in 1..Len(FieldSelectors) } :
                          Cardinality(w) <= MaxDeviations } }

\* the same pages with the no-data marker
MarkedPages == { [p EXCEPT ![seNoData] = <<<<>>>>] : p \in Pages }

Bodies ==
    { [readErr |-> <<>>, root |-> p] : p \in Pages \cup MarkedPages }
    \cup { [readErr |-> <<<<"u", "n", "e", "x", "p", "e", "c", "t", "e", "d", " ", "E", "O", "F">>>>, root |-> WellFormed] }

Statuses == {200, 201, 404, 500}

\* what the get function may return: an error, or a response
Responses ==
    { << <<>>, <<<<"d", "i", "a", "l", " ", "t", "c", "p", ":", " ", "i", "/", "o",
             " ", "t", "i", "m", "e", "o", "u", "t">>>> >> }
    \cup { << <<[StatusCode |-> c, Body |-> b]>>, <<>> >> : c \in {StatusOK}, b \in Bodies }
    \cup { << <<[StatusCode |-> c, Body |-> [readErr |-> <<>>, root |-> WellFormed]]>>, <<>> >> :
             c \in Statuses }

----------------------------------------------------------------------------
(* The specification of siteInfo *)

Init ==
    /\ pc = "siteInfo"
    /\ resp \in Responses
    /\ d = <<>>
    /\ s = ZeroSite
    /\ attempted = <<>>
    /\ parseRet = <<>>
    /\ ret = <<>>
    /\ arg = <<>>
    /\ called = "none"
    /\ result = <<>>

Next ==
    \/ siteInfoFetch
    \/ parseDocument
    \/ parseNoData
    \/ parseGlobalRank
    \/ parseLocalRank
    \/ parseCountry
    \/ parseLinkingTotal
    \/ parseTitle
    \/ parseDescription
    \/ parseVisitors
    \/ parseKeywords
    \/ parseUpstreams
    \/ parseLinksFrom
    \/ parseRelated
    \/ parseCategories
    \/ parseSubdomains
    \/ siteInfoReturn

Spec == Init /\ [][Next]_vars

----------------------------------------------------------------------------
(* The scalar extractors applied to a selection directly *)

Alphabet == {"0", "1", "9", ",", " ", "\r", "x"}

\* every text of at most n characters
Texts(n) == UNION { [1..k -> Alphabet] : k \in 0..n }

\* texts longer than MaxLen: grouped and plain numerals, the largest uint64,
\* the smallest overflow, an overflow followed by a non-digit
LongTexts ==
    { <<"1", ",", "2", "3", "4", ",", "5", "6", "7">>, <<"1", "2", "3", "4", "5", "6", "7">>, <<" ", "1", "8", ",", "4", "4", "6", ",", "7", "4", "4", ",", "0", "7", "3", ",", "7", "0", "9", ",", "5", "5", "1", ",", "6", "1", "5", "\n">>,
      MaxUint64,
      <<"1", "8", "4", "4", "6", "7", "4", "4", "0", "7", "3", "7", "0", "9", "5", "5", "1", "6", "1", "6">>, <<"1", "8", ",", "4", "4", "6", ",", "7", "4", "4", ",", "0", "7", "3", ",", "7", "0", "9", ",", "5", "5", "1", ",", "6", "1", "6">>, <<"9", "9", "9", "9", "9", "9", "9", "9", "9", "9", "9", "9", "9", "9", "9", "9", "9", "9", "9", "9", "9", "9", "9", "x">> }

\* texts with white space other than ' ', and texts that ParseUint rejects
\* with a character strconv.Quote escapes, or copies, in the error's message
EscapedTexts ==
    { <<"\r", "1", "7", "\r", "\n">>,
      <<"\r", "\n">>,
      <<"U+00A0", "5", "0", "6", "U+3000">>,
      <<"U+000B", "\f", "U+0085", "U+2028">>,
      <<"1", "\"", "2">>,
      <<"1", "\t", "2">>,
      <<"1", "\\", "2">>,
      <<"1", "U+00A0", "2">>,
      <<"1", "U+0001", "2">>,
      <<"1", "U+0007", "2">>,
      <<"1", "U+000B", "2">>,
      <<"1", "U+001F", "2">>,
      <<"1", "U+007F", "2">>,
      <<"1", "U+0080", "2">>,
      <<"1", "U+00AD", "7">>,
      <<"1", "U+200B", "2">>,
      <<"U+FEFF", "1", "7">>,
      <<"1", "U+E000", "2">>,
      <<"1", "U+E0001", "2">>,
      <<"1", "U+0416", "2">>,
      <<"1", "U+1F600", "2">>,
      <<"1", "0xFF", "2">>,
      <<"9", "9", "9", "9", "9", "9", "9", "9", "9", "9", "9", "9", "9", "9",
        "9", "9", "9", "9", "9", "9", "\"">>,
      <<"9", "9", "9", "9", "9", "9", "9", "9", "9", "9", "9", "9", "9", "9",
        "9", "9", "9", "9", "9", "9", "U+200B">> }

\* node texts of the selections of several nodes
NodeTexts == { <<>>, <<" ">>, <<"1", "7">>, <<" ", "5", " ">>, <<"1", ",", "2">>, <<"x">> }

\* every selection of at most n nodes
Selections(n) == UNION { [1..k -> NodeTexts] : k \in 0..n }

ScalarInputs ==
    { <<t>> : t \in Texts(MaxLen) \cup LongTexts \cup EscapedTexts }
    \cup Selections(MaxNodes)

InitScalar ==
    /\ pc = "idle"
    /\ resp = <<>>
    /\ d = <<>>
    /\ s = ZeroSite
    /\ attempted = <<>>
    /\ parseRet = <<>>
    /\ ret = <<>>
    /\ arg \in ScalarInputs
    /\ called = "none"
    /\ result = <<>>

\* globalRank, that is getUint(d, seGlobalRank, "global rank"), on a document
\* whose matches are arg
callGetUint ==
    /\ called = "none"
    /\ result' = globalRank(<<seGlobalRank :> arg>>)
    /\ called' = "getUint"
    /\ UNCHANGED <<pc, resp, d, s, attempted, parseRet, ret, arg>>

\* "0 country rank": the kind visitors gives getUint for its first row
countryRankKind == Itoa(0) \o <<" ", "c", "o", "u", "n", "t", "r", "y", " ", "r", "a", "n", "k">>

\* getUint(sel, "", kind) on the selection arg itself, as visitors calls it
callGetUintSelf ==
    /\ called = "none"
    /\ result' = getUint(arg, "", countryRankKind)
    /\ called' = "getUintSelf"
    /\ UNCHANGED <<pc, resp, d, s, attempted, parseRet, ret, arg>>

\* country, that is getString(d, seCountry, "country"), on a document whose
\* matches are arg
callGetString ==
    /\ called = "none"
    /\ result' = country(<<seCountry :> arg>>)
    /\ called' = "getString"
    /\ UNCHANGED <<pc, resp, d, s, attempted, parseRet, ret, arg>>

\* getString(sel, "", kind) on the selection arg itself
callGetStringSelf ==
    /\ called = "none"
    /\ result' = getString(arg, "", <<"c", "o", "u", "n", "t", "r", "y">>)
    /\ called' = "getStringSelf"
    /\ UNCHANGED <<pc, resp, d, s, attempted, parseRet, ret, arg>>

NextScalar ==
    \/ callGetUint
    \/ callGetUintSelf
    \/ callGetString
    \/ callGetStringSelf

SpecScalar == InitScalar /\ [][NextScalar]_vars

----------------------------------------------------------------------------
(* The tabular extractors applied to a table directly *)

TableSelectors ==
    {seVisitors, seKeywords, seUpstreams, seLinks, seRelated, seCategories,
     seSubdomains}

\* the rows a table of each kind is built from: every combination of what the
\* two sub-selectors of the extractor may match in a row
RowsOf ==
    (seVisitors :>
        { ("td a" :> a) @@ ("td span" :> b) :
            a \in { <<>>, <<<<"R", "u", "s", "s", "i", "a">>>> }, b \in { <<>>, <<<<"8", "3", ".", "8", "%">>>>, <<<<"8", "3", ".", "8", "%">>, <<"1", "7">>>>, <<<<"2", ".", "0", "%">>, <<"n", "/", "a">>>>, <<<<" ">>, <<"1", ",", "3", "6", "6">>>> } })
    @@ (seKeywords :>
        { ("td:first-child span:last-child" :> a) @@ ("td:last-child span" :> b) :
            a \in { <<>>, <<<<"s", "b", "e", "r">>>> }, b \in { <<>>, <<<<" ">>>>, <<<<"7", ".", "8", "7", "%">>>> } })
    @@ (seUpstreams :>
        { ("td a" :> a) @@ ("td:last-child span" :> b) :
            a \in { <<>>, <<<<" ", "v", "k", ".", "c", "o", "m", " ">>>> }, b \in { <<>>, <<<<" ">>>>, <<<<"7", ".", "8", "7", "%">>>> } })
    @@ (seLinks :>
        { ("span.word-wrap a" :> a) @@ ("a.word-wrap" :> b) :
            a \in { <<>>, <<<<"m", "i", "t", ".", "e", "d", "u">>>> }, b \in { <<>>, << <<>> >>, <<"href" :> <<"h", "t", "t", "p", ":", "/", "/", "m", "i", "t", ".", "e", "d", "u", "/", "h">>>> } })
    @@ (seRelated :> { ("a" :> a) : a \in { <<>>, <<<<"s", "b", "r", "f", ".", "r", "u">>>>, <<<<"a", ".", "r", "u">>, <<"b", ".", "r", "u">>>> } })
    @@ (seCategories :> { ("a" :> a) : a \in { <<>>, <<<<"W", "o", "r", "l", "d">>>>, <<<<"W", "o", "r", "l", "d">>, <<"B", "a", "n", "k", "s">>>> } })
    @@ (seSubdomains :>
        { ("td:first-child span" :> a) @@ ("td:last-child span" :> b) :
            a \in { <<>>, <<<<" ", "s", "b", "e", "r", ".", "r", "u", " ">>>> }, b \in { <<>>, <<<<"2", "8", ".", "3", "0", "%">>>> } })

\* the selections a table selector may match: nothing, or one table body of
\* at most n rows
Tables(selector, n) ==
    { <<>> } \cup { <<tbodyOf(rows)>> : rows \in UNION { [1..k -> RowsOf[selector]] : k \in 0..n } }

TableInputs ==
    UNION { { <<selector :> tb>> : tb \in Tables(selector, MaxRows) } :
            selector \in TableSelectors }

InitTable ==
    /\ pc = "idle"
    /\ resp = <<>>
    /\ d = <<>>
    /\ s = ZeroSite
    /\ attempted = <<>>
    /\ parseRet = <<>>
    /\ ret = <<>>
    /\ arg \in TableInputs
    /\ called = "none"
    /\ result = <<>>

callVisitors ==
    /\ called = "none" /\ seVisitors \in DOMAIN arg[1]
    /\ result' = visitors(arg)
    /\ called' = "visitors"
    /\ UNCHANGED <<pc, resp, d, s, attempted, parseRet, ret, arg>>

callKeywords ==
    /\ called = "none" /\ seKeywords \in DOMAIN arg[1]
    /\ result' = keywords(arg)
    /\ called' = "keywords"
    /\ UNCHANGED <<pc, resp, d, s, attempted, parseRet, ret, arg>>

callUpstreams ==
    /\ called = "none" /\ seUpstreams \in DOMAIN arg[1]
    /\ result' = upstreams(arg)
    /\ called' = "upstreams"
    /\ UNCHANGED <<pc, resp, d, s, attempted, parseRet, ret, arg>>

callLinksFrom ==
    /\ called = "none" /\ seLinks \in DOMAIN arg[1]
    /\ result' = linksFrom(arg)
    /\ called' = "linksFrom"
    /\ UNCHANGED <<pc, resp, d, s, attempted, parseRet, ret, arg>>

callRelated ==
    /\ called = "none" /\ seRelated \in DOMAIN arg[1]
    /\ result' = related(arg)
    /\ called' = "related"
    /\ UNCHANGED <<pc, resp, d, s, attempted, parseRet, ret, arg>>

callCategories ==
    /\ called = "none" /\ seCategories \in DOMAIN arg[1]
    /\ result' = categories(arg)
    /\ called' = "categories"
    /\ UNCHANGED <<pc, resp, d, s, attempted, parseRet, ret, arg>>

callSubdomains ==
    /\ called = "none" /\ seSubdomains \in DOMAIN arg[1]
    /\ result' = subdomains(arg)
    /\ called' = "subdomains"
    /\ UNCHANGED <<pc, resp, d, s, attempted, parseRet, ret, arg>>

NextTable ==
    \/ callVisitors
    \/ callKeywords
    \/ callUpstreams
    \/ callLinksFrom
    \/ callRelated
    \/ callCategories
    \/ callSubdomains

SpecTable == InitTable /\ [][NextTable]_vars

----------------------------------------------------------------------------
(* What the claims speak of *)

StageOrder ==
    <<"globalRank", "localRank", "country", "linkingTotal", "title",
      "description", "visitors", "keywords", "upstreams", "linksFrom",
      "related", "categories", "subdomains">>

\* the field of Site each stage fills
FieldOf ==
    <<"GlobalRank", "LocalRank", "MainCountry", "LinkingTotal", "Title",
      "Description", "Visitors", "Keywords", "Upstreams", "LinksFrom",
      "Related", "Categories", "Subdomains">>

\* what stage k extracts from document dd: <<value, err>>
Extracted(k, dd) ==
    CASE k = 1  -> globalRank(dd)
      [] k = 2  -> localRank(dd)
      [] k = 3  -> country(dd)
      [] k = 4  -> linkingTotal(dd)
      [] k = 5  -> title(dd)
      [] k = 6  -> description(dd)
      [] k = 7  -> visitors(dd)
      [] k = 8  -> keywords(dd)
      [] k = 9  -> upstreams(dd)
      [] k = 10 -> linksFrom(dd)
      [] k = 11 -> related(dd)
      [] k = 12 -> categories(dd)
      [] k = 13 -> subdomains(dd)

NStages == Len(StageOrder)

parseReturned == parseRet # <<>>

\* parse halted because the field stage it called last failed
stageFailed == parseReturned /\ attempted # <<>> /\ parseRet[2] # <<>>

hasMarker(dd) == Len(Find(dd, seNoData)) >= 1

\* a digit string that is a uint64
ValidNumber(cs) ==
    /\ cs # <<>>
    /\ \A i \in 1..Len(cs) : IsDigit(cs[i])
    /\ ~Greater(Canon(cs), MaxUint64)

RECURSIVE Joined(_)
\* the texts of the nodes of a selection, one after the other
Joined(sel) ==
    IF sel = <<>> THEN <<>>
    ELSE Joined(SubSeq(sel, 1, Len(sel) - 1)) \o sel[Len(sel)]

\* C1: parse calls the field extractors in the fixed order, and stops at the
\* first that fails: the stages called are a prefix of the order, every stage
\* called before the last succeeded, and when stage k failed the error
\* returned is that of stage k, the fields of the stages before k hold what
\* those stages extracted, the fields of stage k and of the later stages are
\* zero, and no later stage was called.
C1_FailFast ==
    /\ Len(attempted) <= NStages
    /\ \A i \in 1..Len(attempted) : attempted[i] = StageOrder[i]
    /\ \A i \in 1..(Len(attempted) - 1) : Extracted(i, d)[2] = <<>>
    /\ \A i \in 1..NStages : pc = StageOrder[i] => Len(attempted) = i - 1
    /\ stageFailed =>
         LET k == Len(attempted)
         IN  /\ Extracted(k, d)[2] # <<>>
             /\ parseRet[2] = Extracted(k, d)[2]
             /\ \A j \in 1..(k - 1) : s[FieldOf[j]] = Extracted(j, d)[1]
             /\ \A j \in k..NStages : s[FieldOf[j]] = ZeroSite[FieldOf[j]]
             /\ parseRet[1] # <<>> => parseRet[1] = <<s>>
    /\ (parseReturned /\ d # <<>> /\ ~hasMarker(d)) =>
         \/ stageFailed
         \/ Len(attempted) = NStages /\ parseRet[2] = <<>>

\* a stage in the middle failed after earlier stages filled their fields,
\* and a later section of the page was not well-formed either
C1_Witness ==
    /\ stageFailed
    /\ Len(attempted) = 8
    /\ s.Visitors # <<>>
    /\ Extracted(9, d)[2] # <<>>

\* C2: whenever parse halts because a field stage failed, it returns the
\* accumulated Record (not nil) with the error, the first stage included.
C2_RecordOnStageError ==
    stageFailed => parseRet[1] = <<s>>

\* C3: with the no-data marker in the document parse returns nil and the
\* ErrNoEnoughData error, calls no field extractor and fills no field,
\* whatever the rest of the document holds; no extractor returns that error.
C3_NoData ==
    (d # <<>> /\ hasMarker(d)) =>
        /\ pc \in {"noEnoughData", "parsed", "done"}
        /\ attempted = <<>>
        /\ s = ZeroSite
        /\ parseReturned => parseRet = << <<>>, <<ErrNoEnoughData>> >>
        /\ \A k \in 1..NStages : Extracted(k, d)[2] # <<ErrNoEnoughData>>

\* the marker in a page whose sections are all present and well-formed
C3_Witness ==
    /\ parseReturned
    /\ d = <<[WellFormed EXCEPT ![seNoData] = <<<<>>>>]>>
    /\ parseRet[2] = <<ErrNoEnoughData>>

\* the sections of dd are all present and well-formed
wellFormedDocument(dd) ==
    /\ ~hasMarker(dd)
    /\ \A sel \in {seGlobalRank, seLocalRank, seLinkingTotal} :
         ValidNumber(ReplaceAll(TrimSpace(Joined(Find(dd, sel))), ","))
    /\ \A sel \in {seCountry, seTitle, seDescription} :
         TrimSpace(Joined(Find(dd, sel))) # <<>>
    /\ \A sel \in TableSelectors : Len(Find(dd, sel)) >= 1

rowsOf(dd, sel) == Find(Find(dd, sel), "tr")

\* C4: for a document without the marker whose 13 sections are present and
\* well-formed, parse returns a nil error and a Record whose fields are what
\* the stages extracted, the lists in document order.
C4_WellFormed ==
    (parseReturned /\ d # <<>> /\ wellFormedDocument(d)) =>
        /\ parseRet[2] = <<>>
        /\ parseRet[1] # <<>>
        /\ LET site == parseRet[1][1]
           IN  /\ \A k \in 1..NStages : site[FieldOf[k]] = Extracted(k, d)[1]
               /\ site.GlobalRank =
                    Canon(ReplaceAll(TrimSpace(Joined(Find(d, seGlobalRank))), ","))
               /\ site.MainCountry = TrimSpace(Joined(Find(d, seCountry)))
               /\ Len(site.Visitors) = Len(rowsOf(d, seVisitors))
               /\ \A i \in 1..Len(site.Visitors) :
                    site.Visitors[i].Country =
                        TrimSpace(Joined(rowsOf(d, seVisitors)[i]["td a"]))
               /\ Len(site.Keywords) = Len(rowsOf(d, seKeywords))
               /\ \A i \in 1..Len(site.Keywords) :
                    site.Keywords[i] = keywordOf(i - 1, <<rowsOf(d, seKeywords)[i]>>)
               /\ Len(site.Upstreams) = Len(rowsOf(d, seUpstreams))
               /\ \A i \in 1..Len(site.Upstreams) :
                    site.Upstreams[i] = upstreamOf(i - 1, <<rowsOf(d, seUpstreams)[i]>>)
               /\ Len(site.LinksFrom) = Len(rowsOf(d, seLinks))
               /\ \A i \in 1..Len(site.LinksFrom) :
                    site.LinksFrom[i] = linkOf(i - 1, <<rowsOf(d, seLinks)[i]>>)
               /\ Len(site.Related) = Len(rowsOf(d, seRelated))
               /\ \A i \in 1..Len(site.Related) :
                    site.Related[i] = Joined(rowsOf(d, seRelated)[i]["a"])
               /\ site.Categories = Find(rowsOf(d, seCategories), "a")
               /\ Len(site.Subdomains) = Len(rowsOf(d, seSubdomains))
               /\ \A i \in 1..Len(site.Subdomains) :
                    site.Subdomains[i].Domain =
                        Joined(rowsOf(d, seSubdomains)[i]["td:first-child span"])

\* parse returned the Record of the well-formed page, two visitors in order
C4_Witness ==
    /\ parseReturned
    /\ d = <<WellFormed>>
    /\ parseRet[2] = <<>>
    /\ parseRet[1][1].Visitors[1].Country = <<"R", "u", "s", "s", "i", "a">>
    /\ parseRet[1][1].Visitors[2].Country = <<"G", "e", "r", "m", "a", "n", "y">>
    /\ parseRet[1][1].LinkingTotal = <<"8", "4", "9", "1">>
    /\ parseRet[1][1].LocalRank = <<"1", "7">>
    /\ parseRet[1][1].Title = <<"S", "b", "e", "r">>

\* the selector of the table an applied tabular extractor reads
selectorOf ==
    [visitors |-> seVisitors, keywords |-> seKeywords, upstreams |-> seUpstreams,
     linksFrom |-> seLinks, related |-> seRelated, categories |-> seCategories,
     subdomains |-> seSubdomains]

\* the "no data for this field" error of each tabular extractor
tableAbsent ==
    [visitors |-> <<<<"n", "o", " ", "v", "i", "s", "i", "t", "o", "r", "s", " ", "f",
            "o", "u", "n", "d">>>>, keywords |-> <<<<"n", "o", " ", "k", "e", "y", "w", "o", "r", "d", "s", " ", "f",
            "o", "u", "n", "d">>>>,
     upstreams |-> <<<<"n", "o", " ", "u", "p", "s", "t", "r", "e", "a", "m", " ", "s",
            "e", "r", "v", "e", "r", "s", " ", "f", "o", "u", "n", "d">>>>,
     linksFrom |-> <<<<"n", "o", " ", "l", "i", "n", "k", "i", "n", "g", " ", "s", "i",
            "t", "e", "s", " ", "f", "o", "u", "n", "d">>>>,
     related |-> <<<<"n", "o", " ", "r", "e", "l", "a", "t", "e", "d", " ", "s", "i",
            "t", "e", "s", " ", "f", "o", "u", "n", "d">>>>,
     categories |-> <<<<"n", "o", " ", "c", "a", "t", "e", "g", "o", "r", "i", "e", "s",
            " ", "f", "o", "u", "n", "d">>>>,
     subdomains |-> <<<<"n", "o", " ", "s", "u", "b", "d", "o", "m", "a", "i", "n", "s",
            " ", "f", "o", "u", "n", "d">>>>]

tabularCalled == called \in DOMAIN selectorOf

\* the container the applied extractor looked for, and its rows
container == Find(arg, selectorOf[called])
rows == Find(container, "tr")

\* C5 as stated: a tabular extractor fails with its Table-Absent error when
\* the container is absent and also when it is present without rows.
C5_AbsentOrNoRowsFails ==
    (tabularCalled /\ (Len(container) = 0 \/ Len(rows) = 0)) =>
        result[2] = tableAbsent[called]

\* C5, amended: a tabular extractor fails with its Table-Absent error (and a
\* nil list) exactly when the container is absent; a container that is
\* present without rows yields the nil list and a nil error.
C5_AbsentFails ==
    tabularCalled =>
        /\ Len(container) = 0 => result = << <<>>, tableAbsent[called] >>
        /\ Len(container) >= 1 => result[2] = <<>>
        /\ (Len(container) >= 1 /\ Len(rows) = 0) => result = << <<>>, <<>> >>

\* an extractor was applied to a table body without rows, another to a
\* document without the table: seen here for visitors without rows
C5_Witness ==
    /\ called = "visitors"
    /\ Len(container) = 1
    /\ Len(rows) = 0
    /\ result = << <<>>, <<>> >>

\* C6 as stated: each of the seven tabular extractors returns one entry per
\* row of a present container, whatever the cells of the row hold.
C6_OneEntryPerRow ==
    (tabularCalled /\ Len(rows) >= 1) =>
        /\ result[2] = <<>>
        /\ Len(result[1]) = Len(rows)

RECURSIVE anchorCount(_)
\* how many anchors the rows hold together
anchorCount(rs) ==
    IF rs = <<>> THEN 0 ELSE Len(rs[1]["a"]) + anchorCount(Tail(rs))

\* the entry the applied extractor builds from row i
entryOf(i) ==
    CASE called = "visitors"   -> visitorOf(i - 1, <<rows[i]>>)
      [] called = "keywords"   -> keywordOf(i - 1, <<rows[i]>>)
      [] called = "upstreams"  -> upstreamOf(i - 1, <<rows[i]>>)
      [] called = "linksFrom"  -> linkOf(i - 1, <<rows[i]>>)
      [] called = "related"    -> relatedOf(i - 1, <<rows[i]>>)
      [] called = "subdomains" -> subdomainOf(i - 1, <<rows[i]>>)

\* C6, amended: visitors, keywords, upstreams, linksFrom, related and
\* subdomains return one entry per row of a present container, entry i built
\* from row i, a blank or missing cell giving an empty field and no error;
\* categories returns one entry per anchor of the rows, in document order, so
\* a row without an anchor gives no entry and a row with several gives several.
C6_EntryPerRowOrAnchor ==
    (tabularCalled /\ Len(rows) >= 1) =>
        /\ result[2] = <<>>
        /\ called # "categories" =>
             /\ Len(result[1]) = Len(rows)
             /\ \A i \in 1..Len(rows) : result[1][i] = entryOf(i)
        /\ called = "keywords" =>
             \A i \in 1..Len(rows) :
                result[1][i].Percent =
                    TrimSpace(Joined(rows[i]["td:last-child span"]))
        /\ called = "categories" =>
             /\ result[1] = Find(rows, "a")
             /\ Len(result[1]) = anchorCount(rows)

\* categories was applied to two rows holding three anchors, or none
C6_CategoriesCase ==
    /\ called = "categories"
    /\ Len(rows) = 2
    /\ Len(result[1]) \in {0, 3}

\* keywords kept the first of two rows, whose percentage cell is blank
C6_Witness ==
    /\ called = "keywords"
    /\ Len(rows) = 2
    /\ TrimSpace(Joined(rows[1]["td:last-child span"])) = <<>>
    /\ Len(result[1]) = 2
    /\ result[1][1].Percent = <<>>
    /\ result[1][2].Percent # <<>>

\* the text getUint was applied to, when it was applied to one node
text == arg[1]

digitsOf(cs) == SelectSeq(cs, IsDigit)

\* C7: getUint trims, removes the commas, then parses: a digit string with
\* commas placed anywhere in it parses to the same result as the digit string
\* itself, which is its value; text that is blank yields the "no <field>
\* found" error; text that is not a uint64 once the commas are removed yields
\* a ParseUint error and the value 0.
C7_NormalizeThenParse ==
    (called \in {"getUint", "getUintSelf"} /\ Len(arg) = 1) =>
        LET trimmed  == TrimSpace(text)
            kind     == IF called = "getUint"
                        THEN <<"g", "l", "o", "b", "a", "l", " ", "r", "a", "n", "k">>
                        ELSE <<"0", " ", "c", "o", "u", "n", "t", "r", "y", " ", "r", "a", "n", "k">>
            blank    == <<<<"n", "o", " ">> \o kind \o <<" ", "f", "o", "u", "n", "d">>>>
            stripped == ReplaceAll(trimmed, ",")
        IN  /\ (digitsOf(text) # <<>> /\ \A i \in 1..Len(text) : IsDigit(text[i]) \/ text[i] = ",") =>
                 /\ result = getUint(<<digitsOf(text)>>, "", kind)
                 /\ ValidNumber(digitsOf(text)) => result = <<Canon(digitsOf(text)), <<>>>>
            /\ trimmed = <<>> => result = <<Zero, blank>>
            /\ (trimmed # <<>> /\ ~ValidNumber(stripped)) =>
                 /\ result[1] = Zero
                 /\ result[2] \in {syntaxError(stripped), rangeError(stripped)}
            /\ (trimmed # <<>> /\ ValidNumber(stripped)) =>
                 result = <<Canon(stripped), <<>>>>
            /\ text = <<"\r", "1", "7", "\r", "\n">> => result = <<<<"1", "7">>, <<>>>>
            /\ text = <<"U+00A0", "5", "0", "6", "U+3000">> =>
                 result = <<<<"5", "0", "6">>, <<>>>>
            /\ text \in {<<"\r", "\n">>, <<"U+000B", "\f", "U+0085", "U+2028">>} =>
                 result = <<Zero, blank>>
            \* strconv.ParseUint: parsing "1\"2": invalid syntax
            /\ text = <<"1", "\"", "2">> =>
                 result = <<Zero, <<<<"s", "t", "r", "c", "o", "n", "v", ".",
                                      "P", "a", "r", "s", "e", "U", "i", "n",
                                      "t", ":", " ", "p", "a", "r", "s", "i",
                                      "n", "g", " ", "\"", "1", "\\", "\"",
                                      "2", "\"", ":", " ", "i", "n", "v",
                                      "a", "l", "i", "d", " ", "s", "y", "n",
                                      "t", "a", "x">>>>>>
            \* strconv.ParseUint: parsing "1\t2": invalid syntax
            /\ text = <<"1", "\t", "2">> =>
                 result = <<Zero, <<<<"s", "t", "r", "c", "o", "n", "v", ".",
                                      "P", "a", "r", "s", "e", "U", "i", "n",
                                      "t", ":", " ", "p", "a", "r", "s", "i",
                                      "n", "g", " ", "\"", "1", "\\", "t",
                                      "2", "\"", ":", " ", "i", "n", "v",
                                      "a", "l", "i", "d", " ", "s", "y", "n",
                                      "t", "a", "x">>>>>>
            \* strconv.ParseUint: parsing "1\\2": invalid syntax
            /\ text = <<"1", "\\", "2">> =>
                 result = <<Zero, <<<<"s", "t", "r", "c", "o", "n", "v", ".",
                                      "P", "a", "r", "s", "e", "U", "i", "n",
                                      "t", ":", " ", "p", "a", "r", "s", "i",
                                      "n", "g", " ", "\"", "1", "\\", "\\",
                                      "2", "\"", ":", " ", "i", "n", "v",
                                      "a", "l", "i", "d", " ", "s", "y", "n",
                                      "t", "a", "x">>>>>>
            \* strconv.ParseUint: parsing "1\u00a02": invalid syntax
            /\ text = <<"1", "U+00A0", "2">> =>
                 result = <<Zero, <<<<"s", "t", "r", "c", "o", "n", "v", ".",
                                      "P", "a", "r", "s", "e", "U", "i", "n",
                                      "t", ":", " ", "p", "a", "r", "s", "i",
                                      "n", "g", " ", "\"", "1", "\\", "u",
                                      "0", "0", "a", "0", "2", "\"", ":",
                                      " ", "i", "n", "v", "a", "l", "i", "d",
                                      " ", "s", "y", "n", "t", "a", "x">>>>>>
            \* strconv.ParseUint: parsing "1\x012": invalid syntax
            /\ text = <<"1", "U+0001", "2">> =>
                 result = <<Zero, <<<<"s", "t", "r", "c", "o", "n", "v", ".",
                                      "P", "a", "r", "s", "e", "U", "i", "n",
                                      "t", ":", " ", "p", "a", "r", "s", "i",
                                      "n", "g", " ", "\"", "1", "\\", "x",
                                      "0", "1", "2", "\"", ":", " ", "i",
                                      "n", "v", "a", "l", "i", "d", " ", "s",
                                      "y", "n", "t", "a", "x">>>>>>
            \* strconv.ParseUint: parsing "1\a2": invalid syntax
            /\ text = <<"1", "U+0007", "2">> =>
                 result = <<Zero, <<<<"s", "t", "r", "c", "o", "n", "v", ".",
                                      "P", "a", "r", "s", "e", "U", "i", "n",
                                      "t", ":", " ", "p", "a", "r", "s", "i",
                                      "n", "g", " ", "\"", "1", "\\", "a",
                                      "2", "\"", ":", " ", "i", "n", "v",
                                      "a", "l", "i", "d", " ", "s", "y", "n",
                                      "t", "a", "x">>>>>>
            \* strconv.ParseUint: parsing "1\v2": invalid syntax
            /\ text = <<"1", "U+000B", "2">> =>
                 result = <<Zero, <<<<"s", "t", "r", "c", "o", "n", "v", ".",
                                      "P", "a", "r", "s", "e", "U", "i", "n",
                                      "t", ":", " ", "p", "a", "r", "s", "i",
                                      "n", "g", " ", "\"", "1", "\\", "v",
                                      "2", "\"", ":", " ", "i", "n", "v",
                                      "a", "l", "i", "d", " ", "s", "y", "n",
                                      "t", "a", "x">>>>>>
            \* strconv.ParseUint: parsing "1\x1f2": invalid syntax
            /\ text = <<"1", "U+001F", "2">> =>
                 result = <<Zero, <<<<"s", "t", "r", "c", "o", "n", "v", ".",
                                      "P", "a", "r", "s", "e", "U", "i", "n",
                                      "t", ":", " ", "p", "a", "r", "s", "i",
                                      "n", "g", " ", "\"", "1", "\\", "x",
                                      "1", "f", "2", "\"", ":", " ", "i",
                                      "n", "v", "a", "l", "i", "d", " ", "s",
                                      "y", "n", "t", "a", "x">>>>>>
            \* strconv.ParseUint: parsing "1\x7f2": invalid syntax
            /\ text = <<"1", "U+007F", "2">> =>
                 result = <<Zero, <<<<"s", "t", "r", "c", "o", "n", "v", ".",
                                      "P", "a", "r", "s", "e", "U", "i", "n",
                                      "t", ":", " ", "p", "a", "r", "s", "i",
                                      "n", "g", " ", "\"", "1", "\\", "x",
                                      "7", "f", "2", "\"", ":", " ", "i",
                                      "n", "v", "a", "l", "i", "d", " ", "s",
                                      "y", "n", "t", "a", "x">>>>>>
            \* strconv.ParseUint: parsing "1\u00802": invalid syntax
            /\ text = <<"1", "U+0080", "2">> =>
                 result = <<Zero, <<<<"s", "t", "r", "c", "o", "n", "v", ".",
                                      "P", "a", "r", "s", "e", "U", "i", "n",
                                      "t", ":", " ", "p", "a", "r", "s", "i",
                                      "n", "g", " ", "\"", "1", "\\", "u",
                                      "0", "0", "8", "0", "2", "\"", ":",
                                      " ", "i", "n", "v", "a", "l", "i", "d",
                                      " ", "s", "y", "n", "t", "a", "x">>>>>>
            \* strconv.ParseUint: parsing "1\u00ad7": invalid syntax
            /\ text = <<"1", "U+00AD", "7">> =>
                 result = <<Zero, <<<<"s", "t", "r", "c", "o", "n", "v", ".",
                                      "P", "a", "r", "s", "e", "U", "i", "n",
                                      "t", ":", " ", "p", "a", "r", "s", "i",
                                      "n", "g", " ", "\"", "1", "\\", "u",
                                      "0", "0", "a", "d", "7", "\"", ":",
                                      " ", "i", "n", "v", "a", "l", "i", "d",
                                      " ", "s", "y", "n", "t", "a", "x">>>>>>
            \* strconv.ParseUint: parsing "1\u200b2": invalid syntax
            /\ text = <<"1", "U+200B", "2">> =>
                 result = <<Zero, <<<<"s", "t", "r", "c", "o", "n", "v", ".",
                                      "P", "a", "r", "s", "e", "U", "i", "n",
                                      "t", ":", " ", "p", "a", "r", "s", "i",
                                      "n", "g", " ", "\"", "1", "\\", "u",
                                      "2", "0", "0", "b", "2", "\"", ":",
                                      " ", "i", "n", "v", "a", "l", "i", "d",
                                      " ", "s", "y", "n", "t", "a", "x">>>>>>
            \* strconv.ParseUint: parsing "\ufeff17": invalid syntax
            /\ text = <<"U+FEFF", "1", "7">> =>
                 result = <<Zero, <<<<"s", "t", "r", "c", "o", "n", "v", ".",
                                      "P", "a", "r", "s", "e", "U", "i", "n",
                                      "t", ":", " ", "p", "a", "r", "s", "i",
                                      "n", "g", " ", "\"", "\\", "u", "f",
                                      "e", "f", "f", "1", "7", "\"", ":",
                                      " ", "i", "n", "v", "a", "l", "i", "d",
                                      " ", "s", "y", "n", "t", "a", "x">>>>>>
            \* strconv.ParseUint: parsing "1\ue0002": invalid syntax
            /\ text = <<"1", "U+E000", "2">> =>
                 result = <<Zero, <<<<"s", "t", "r", "c", "o", "n", "v", ".",
                                      "P", "a", "r", "s", "e", "U", "i", "n",
                                      "t", ":", " ", "p", "a", "r", "s", "i",
                                      "n", "g", " ", "\"", "1", "\\", "u",
                                      "e", "0", "0", "0", "2", "\"", ":",
                                      " ", "i", "n", "v", "a", "l", "i", "d",
                                      " ", "s", "y", "n", "t", "a", "x">>>>>>
            \* strconv.ParseUint: parsing "1\U000e00012": invalid syntax
            /\ text = <<"1", "U+E0001", "2">> =>
                 result = <<Zero, <<<<"s", "t", "r", "c", "o", "n", "v", ".",
                                      "P", "a", "r", "s", "e", "U", "i", "n",
                                      "t", ":", " ", "p", "a", "r", "s", "i",
                                      "n", "g", " ", "\"", "1", "\\", "U",
                                      "0", "0", "0", "e", "0", "0", "0", "1",
                                      "2", "\"", ":", " ", "i", "n", "v",
                                      "a", "l", "i", "d", " ", "s", "y", "n",
                                      "t", "a", "x">>>>>>
            \* strconv.ParseUint: parsing "1U+04162": invalid syntax
            /\ text = <<"1", "U+0416", "2">> =>
                 result = <<Zero, <<<<"s", "t", "r", "c", "o", "n", "v", ".",
                                      "P", "a", "r", "s", "e", "U", "i", "n",
                                      "t", ":", " ", "p", "a", "r", "s", "i",
                                      "n", "g", " ", "\"", "1", "U+0416",
                                      "2", "\"", ":", " ", "i", "n", "v",
                                      "a", "l", "i", "d", " ", "s", "y", "n",
                                      "t", "a", "x">>>>>>
            \* strconv.ParseUint: parsing "1U+1F6002": invalid syntax
            /\ text = <<"1", "U+1F600", "2">> =>
                 result = <<Zero, <<<<"s", "t", "r", "c", "o", "n", "v", ".",
                                      "P", "a", "r", "s", "e", "U", "i", "n",
                                      "t", ":", " ", "p", "a", "r", "s", "i",
                                      "n", "g", " ", "\"", "1", "U+1F600",
                                      "2", "\"", ":", " ", "i", "n", "v",
                                      "a", "l", "i", "d", " ", "s", "y", "n",
                                      "t", "a", "x">>>>>>
            \* strconv.ParseUint: parsing "1\xff2": invalid syntax
            /\ text = <<"1", "0xFF", "2">> =>
                 result = <<Zero, <<<<"s", "t", "r", "c", "o", "n", "v", ".",
                                      "P", "a", "r", "s", "e", "U", "i", "n",
                                      "t", ":", " ", "p", "a", "r", "s", "i",
                                      "n", "g", " ", "\"", "1", "\\", "x",
                                      "f", "f", "2", "\"", ":", " ", "i",
                                      "n", "v", "a", "l", "i", "d", " ", "s",
                                      "y", "n", "t", "a", "x">>>>>>
            \* strconv.ParseUint: parsing "99999999999999999999\"": value out of range
            /\ text = <<"9", "9", "9", "9", "9", "9", "9", "9", "9", "9", "9",
                     "9", "9", "9", "9", "9", "9", "9", "9", "9", "\"">> =>
                 result = <<Zero, <<<<"s", "t", "r", "c", "o", "n", "v", ".",
                                      "P", "a", "r", "s", "e", "U", "i", "n",
                                      "t", ":", " ", "p", "a", "r", "s", "i",
                                      "n", "g", " ", "\"", "9", "9", "9",
                                      "9", "9", "9", "9", "9", "9", "9", "9",
                                      "9", "9", "9", "9", "9", "9", "9", "9",
                                      "9", "\\", "\"", "\"", ":", " ", "v",
                                      "a", "l", "u", "e", " ", "o", "u", "t",
                                      " ", "o", "f", " ", "r", "a", "n", "g",
                                      "e">>>>>>
            \* strconv.ParseUint: parsing "99999999999999999999\u200b": value out of range
            /\ text = <<"9", "9", "9", "9", "9", "9", "9", "9", "9", "9", "9",
                     "9", "9", "9", "9", "9", "9", "9", "9", "9", "U+200B">> =>
                 result = <<Zero, <<<<"s", "t", "r", "c", "o", "n", "v", ".",
                                      "P", "a", "r", "s", "e", "U", "i", "n",
                                      "t", ":", " ", "p", "a", "r", "s", "i",
                                      "n", "g", " ", "\"", "9", "9", "9",
                                      "9", "9", "9", "9", "9", "9", "9", "9",
                                      "9", "9", "9", "9", "9", "9", "9", "9",
                                      "9", "\\", "u", "2", "0", "0", "b",
                                      "\"", ":", " ", "v", "a", "l", "u",
                                      "e", " ", "o", "u", "t", " ", "o", "f",
                                      " ", "r", "a", "n", "g", "e">>>>>>

\* "1,234,567" was parsed, to 1234567
C7_Witness ==
    /\ called = "getUintSelf"
    /\ arg = <<<<"1", ",", "2", "3", "4", ",", "5", "6", "7">>>>
    /\ result = <<<<"1", "2", "3", "4", "5", "6", "7">>, <<>>>>

\* C8: siteInfo returns nil and an error without calling parse when the get
\* function fails or the status is not 200; parse is called only after a
\* response with status 200, and what it returns is what siteInfo returns.
C8_TransportFirst ==
    LET parseCalled == pc \notin {"siteInfo", "done"} \/ parseReturned
        fetched     == resp[2] = <<>> /\ resp[1][1].StatusCode = StatusOK
    IN  /\ parseCalled => fetched
        /\ ~fetched =>
             /\ d = <<>> /\ attempted = <<>> /\ ~parseReturned
             /\ pc \in {"siteInfo", "done"}
             /\ pc = "done" => ret[1] = <<>> /\ ret[2] # <<>>
        /\ (pc = "done" /\ fetched) => parseReturned /\ ret = parseRet

\* siteInfo returned after a response with a status other than 200
C8_Witness ==
    /\ pc = "done"
    /\ resp[2] = <<>>
    /\ resp[1][1].StatusCode = 404
    /\ ret[1] = <<>>
    \* "status code: 404, no data for https://www.alexa.com/siteinfo/example.com?"
    /\ ret[2] = <<<<"s", "t", "a", "t", "u", "s", " ", "c", "o", "d", "e",
                   ":", " ", "4", "0", "4", ",", " ", "n", "o", " ", "d",
                   "a", "t", "a", " ", "f", "o", "r", " ", "h", "t", "t",
                   "p", "s", ":", "/", "/", "w", "w", "w", ".", "a", "l",
                   "e", "x", "a", ".", "c", "o", "m", "/", "s", "i", "t",
                   "e", "i", "n", "f", "o", "/", "e", "x", "a", "m", "p",
                   "l", "e", ".", "c", "o", "m", "?">>>>

\* the country rank texts of the visitor rows of dd on which getUint fails
\* though they are not blank
badRanks(dd) ==
    { i \in 1..Len(rowsOf(dd, seVisitors)) :
        LET last == Last(Find(<<rowsOf(dd, seVisitors)[i]>>, "td span"))
        IN  /\ TrimSpace(Joined(last)) # <<>>
            /\ getUint(last, "", <<"c", "o", "u", "n", "t", "r", "y", " ", "r", "a", "n", "k">>)[2] # <<>> }

\* C9: no error of getUint is swallowed by parse: when getUint fails on the
\* global rank, the local rank, the linking total or the non-blank country
\* rank of a visitor row, parse returns a non-nil error.
C9_NoErrorSwallowed ==
    parseReturned =>
        /\ \A k \in {1, 2, 4} :
             (k \in 1..Len(attempted) /\ Extracted(k, d)[2] # <<>>) => parseRet[2] # <<>>
        /\ (7 \in 1..Len(attempted) /\ badRanks(d) # {}) => parseRet[2] # <<>>

\* C10 as stated: scalar extraction with a selector reads the first matching
\* node alone, and fails with "no <field> found" exactly when nothing matches
\* or the first match is blank.
C10_FirstMatchOnly ==
    /\ called = "getString" =>
         LET blank == arg = <<>> \/ TrimSpace(arg[1]) = <<>>
         IN  /\ blank <=> result[2] = <<<<"n", "o", " ", "c", "o", "u", "n", "t", "r", "y", " ", "f", "o", "u", "n", "d">>>>
             /\ ~blank => result = <<TrimSpace(arg[1]), <<>>>>
    /\ called = "getUint" =>
         LET blank == arg = <<>> \/ TrimSpace(arg[1]) = <<>>
         IN  /\ blank <=> result[2] = <<<<"n", "o", " ", "g", "l", "o", "b", "a", "l", " ", "r",
                     "a", "n", "k", " ", "f", "o", "u", "n", "d">>>>
             /\ ~blank => result = getUint(<<arg[1]>>, "", <<"g", "l", "o", "b", "a", "l", " ", "r", "a", "n", "k">>)

\* C10, amended: scalar extraction with a selector reads the texts of all
\* the matching nodes, joined in document order and then trimmed, and fails
\* with "no <field> found" exactly when that joined text is blank (nothing
\* matches, or every match is blank).
C10_AllMatchesJoined ==
    /\ called = "getString" =>
         LET joined == TrimSpace(Joined(arg))
         IN  /\ joined = <<>> <=> result[2] = <<<<"n", "o", " ", "c", "o", "u", "n", "t", "r", "y", " ", "f", "o", "u", "n", "d">>>>
             /\ joined = <<>> => result[1] = <<>>
             /\ joined # <<>> => result = <<joined, <<>>>>
    /\ called = "getUint" =>
         LET joined == TrimSpace(Joined(arg))
         IN  /\ joined = <<>> <=> result[2] = <<<<"n", "o", " ", "g", "l", "o", "b", "a", "l", " ", "r",
                     "a", "n", "k", " ", "f", "o", "u", "n", "d">>>>
             /\ joined # <<>> => result = getUint(<<joined>>, "", <<"g", "l", "o", "b", "a", "l", " ", "r", "a", "n", "k">>)

\* getString on two matching nodes returned the text of both
C10_Witness ==
    /\ called = "getString"
    /\ arg = <<<<"1", "7">>, <<"x">>>>
    /\ result = <<<<"1", "7", "x">>, <<>>>>

====
